---- MODULE Spec2Model ----
(***************************************************************************)
(* A model of the redis-py-sansio connection pool and connection drivers.  *)
(*                                                                         *)
(*   Spec       the cooperative (asyncio) pool of src/redis/io/aio.py over *)
(*              the shared logic of src/sansredis/io/base.py.  A step is   *)
(*              the code a task runs between two suspension points.        *)
(*   SpecT      the threaded pool of src/redis/io/sio.py, under fair       *)
(*              scheduling.  acquire runs under the lock; a step of        *)
(*              release is one statement.                                  *)
(*   SpecDrain  the threaded pool with NTasks threads, each running one    *)
(*              command or one disconnect(inuse), under fair scheduling.   *)
(*   SpecSat    the cooperative pool with max_connections=2 and            *)
(*              min_connections=1 and NTasks callers of one command each.  *)
(*   SpecConn   one connection of the cooperative driver                   *)
(*              (RedisAsyncIOProtocol), its waiters and the reply stream.  *)
(*   SpecSio    one connection of the threaded driver                      *)
(*              (RedisSyncIOProtocol): the calling threads and the reader. *)
(*   SpecConnect  the callers of AsyncIORedisConnection.connect() on one   *)
(*              connection, its lock, its socket and the handshake.        *)
(*   SpecPipe   pipelines on one connection of the cooperative driver.     *)
(*   SpecTxn    RedisOperator._read_pipelined_response as a function of    *)
(*              the pipeline and of its parsed replies.                    *)
(*   SpecClient one pipeline object of the threaded client                 *)
(*              (src/redis/client) and the pool it acquires from.          *)
(*   SpecDisc   one call of the pool's disconnect(inuse) on a pool whose   *)
(*              connections may fail to disconnect.                        *)
(*   SpecOnConnect  SansIORedisProtocol.get_on_connect_routine as a        *)
(*              function of the configuration, and the on_connect() of a   *)
(*              connection that sends its payloads.                        *)
(*   SpecHealth check_health() of a connection against the clock.          *)
(*   SpecFail   one connection of the cooperative pool: error replies,     *)
(*              failures of the socket and of the protocol, release.       *)
(*   SpecPrune  _drop_closed and the fast path _get_conn on a pool nobody  *)
(*              else uses.                                                 *)
(***************************************************************************)
EXTENDS Integers, Sequences, FiniteSets, TLC

\* ---------------------------------------------------------------- bounds
NTasks == 3          \* callers of the pool in the saturation scenario
NBusy == 2           \* callers that keep calling the pool, in any order
MaxMade == 3         \* the count of constructed connections stops here
MaxM == 2            \* largest max_connections the pool is configured with
MaxWakeups == 3      \* _wakeup() tasks scheduled and not yet run

Task == 1..NTasks
Busy == 1..NBusy
Conn == 1..(MaxM + NTasks)   \* identities of the live connections
NoConn == 0
NoTask == 0
MaxCmds == 3         \* calls of send_command on the connection
FrameLen == 2        \* bytes of one reply on the wire
MaxPush == 1         \* replies the server writes that no command asked for
MaxOpens == 3        \* sockets connect() opens on one connection
NSenders == 2        \* threads that call send_command on one connection
MaxPipe == 3         \* commands of one pipeline
MaxTxn == 2          \* commands of one pipeline given to the operator
MaxDisc == 3         \* connections of the pool disconnect() is called on
MaxClock == 4        \* the clock of the health check stops here
Cmd == 1..MaxCmds
Sender == 1..NSenders

VARIABLES
    maxc,        \* pool_info.max_connections
    minc,        \* pool_info.min_connections
    free,        \* BaseIORedisConnectionPool.free: deque of connections
    inuse,       \* BaseIORedisConnectionPool.inuse: set of connections
    acquiring,   \* BaseIORedisConnectionPool.acquiring
    cstate,      \* per connection: "none", "connecting", "connected",
                 \*   "closed" (lost) or "disconnected" (by the pool)
    made,        \* connections make_connection() has constructed, counted
                 \*   up to MaxMade
    lock,        \* owner of the lock of _connection_waiter (NoTask: unlocked)
    cwait,       \* callers suspended in _connection_waiter.wait(), oldest first
    wakeups,     \* _wakeup() tasks scheduled by ensure_future and not yet run
    pc,          \* per caller: where it is suspended
    tconn,       \* per caller: the connection it connects, holds or uses
    tphase,      \* per caller: the loop of iterconn it is in ("min" or "over")
    targ,        \* per caller: <<inuse, reset>> of its disconnect()/reset() call
    fillsize,    \* per caller: size() as its fill(override_min=False) returns
    \* one connection and its protocol object
    pstate,      \* _state: "not_connected", "connected" or "error"
    pexc,        \* _exc: the stored cause ("none": None)
    transport,   \* the socket: "none", "open", "closing" (close() called or
                 \*   end of stream), "broken" (socket error), "fatal"
                 \*   (data_received raised) or "closed"
    pwaiters,    \* _waiters: the commands whose futures wait, oldest first
    fut,         \* the future of the i-th waiter appended to _waiters:
                 \*   "none", "pending", "result" or "timeout" (cancelled by
                 \*   the timeout of read_response)
    sent,        \* calls of send_command so far
    raised,      \* what the last call of send_command raised ("none":
                 \*   nothing; "ConnectionClosed": it returned that result)
    wire,        \* bytes the server has written that have not arrived yet
    emitted,     \* replies the server has written so far
    pushed,      \* of these, replies no command asked for
    rbuf,        \* the buffer of the parser: bytes fed and not yet parsed
    unpaired,    \* a pass of the read loop met a reply that no waiter and no
                 \*   command being sent could take
    rpc,         \* threaded driver: where the reader thread (read_forever) is
    spc,         \* threaded driver: per calling thread, where it is
    swr,         \* threaded driver: per calling thread, the ordinal of the
                 \*   payload it has written and not yet enqueued (0: none)
    \* AsyncIORedisConnection.connect() and its callers
    cpc,         \* per caller: where it is in connect()
    clock,       \* owner of _connectlock (NoTask: unlocked)
    cres,        \* per caller: how its last connect() ended
    connection,  \* self.connection is set (a transport, not None)
    opening,     \* socket opens (_connect) in flight
    socks,       \* sockets opened and not yet closed
    opens,       \* sockets opened so far
    hsent,       \* on-connect handshakes sent so far
    dwset,       \* _disconnect_waiter is set
    \* pipelines on one connection
    plen,        \* per waiter: the commands of its event (0: no waiter)
    rtag,        \* per reply the server wrote: <<waiter, command>> it answers
    ppay,        \* the last pipeline packed: its commands (n) and the
                 \*   frames of its payload
    \* RedisOperator._read_pipelined_response(event, reply)
    tcmds,       \* event.commands
    ttrans,      \* event.transaction
    troe,        \* event.raise_on_error
    treply,      \* reply: the parsed replies of the pipeline
    tdone,       \* the call has been made
    tout,        \* what the call returned or raised
    tsan,        \* what _sanity_check_transaction returned or raised
    \* one pipeline object of the client (PipelineMixin) over the pool
    ptransaction, \* the transaction argument the pipeline was created with
    pinned,      \* self.connection of the pipeline (NoConn: None)
    watching,    \* self.watching
    explicit_transaction, \* self.explicit_transaction
    stack,       \* self.stack: the PipelinedCommands being built
    lastop,      \* the method of the pipeline called last ("new": none yet)
    lastres,     \* what that call raised ("ok": it returned)
    unwatch,     \* how the UNWATCH of that call ended ("none": not sent)
    \* one call of AsyncIORedisConnectionPool.disconnect(inuse=...)
    dpc,         \* where the call is: "idle", "gather" or "done"
    darg,        \* its inuse argument
    dfail,       \* the connections whose disconnect() raises
    dtasks,      \* the connections drained, in the order of their tasks
    dran,        \* the drained connections whose disconnect() has ended
    dout,        \* the connection whose exception the call raised (NoConn:
                 \*   it returned)
    dfree0,      \* free as the call began
    dinuse0,     \* inuse as the call began
    \* SansIORedisProtocol: the on-connect routine and the health check
    ocfg,        \* address_info and client_info as the routine is compiled
    oret,        \* what get_on_connect_routine returned, and the
                 \*   resp_version it left in client_info
    hinterval,   \* client_info.health_check_interval
    hnext,       \* client_info.next_health_check
    hclock,      \* the clock (loop.time())
    hping,       \* PINGs the last call of check_health sent (-1: no call)
    hseen,       \* the clock and next_health_check as that call began
    \* one connection of the cooperative pool and its holder
    rerr,        \* the replies of the stream that are error replies
    fdisc,       \* the pool has called disconnect() on the connection
    \* _drop_closed and _get_conn on a pool nobody else uses
    ppc,         \* what has run: "idle", "pruned" (_drop_closed) or "fast"
    got,         \* what the calls of _get_conn returned, oldest first
    \* on_connect() of a connection
    opc,         \* "idle", "returned" or "raised"
    osent        \* the payloads on_connect has sent, oldest first

poolvars == <<maxc, minc, free, inuse, acquiring, cstate, made, lock, cwait,
              wakeups, pc, tconn, tphase, targ, fillsize>>
connvars == <<pstate, pexc, transport, pwaiters, fut, sent, raised, wire,
              emitted, pushed, rbuf, unpaired, rpc, spc, swr>>
cnvars == <<cpc, clock, cres, connection, opening, socks, opens, hsent, dwset>>
pipevars == <<plen, rtag, ppay>>
txnvars == <<tcmds, ttrans, troe, treply, tdone, tout, tsan>>
clvars == <<ptransaction, pinned, watching, explicit_transaction, stack,
            lastop, lastres, unwatch>>
discvars == <<dpc, darg, dfail, dtasks, dran, dout, dfree0, dinuse0>>
fnvars == <<ocfg, oret, hinterval, hnext, hclock, hping, hseen>>
failvars == <<rerr, fdisc>>
prvars == <<ppc, got, opc, osent>>
vars == <<poolvars, connvars, cnvars, pipevars, txnvars, clvars, discvars,
          fnvars, failvars, prvars>>

\* --------------------------------------------------------------- helpers
Range(s) == {s[i] : i \in 1..Len(s)}

\* collections.deque.rotate(1): the rightmost element moves to the front.
Rotate(f) ==
    IF Len(f) <= 1 THEN f ELSE <<f[Len(f)]>> \o SubSeq(f, 1, Len(f) - 1)

\* deque(maxlen=max_connections).append: a full deque discards its leftmost.
AppendMax(f, c, m) ==
    IF Len(f) >= m THEN Append(Tail(f), c) ELSE Append(f, c)

\* BaseIORedisConnection.is_connected
IsConnected(cs, c) == cs[c] = "connected"

\* BaseIORedisConnectionPool.size
SizeNoInUse(f, iu, acq) == Len(f) + acq
Size(f, iu, acq) == Len(f) + Cardinality(iu) + acq

\* BaseIORedisConnectionPool.available
Available(f) == Len(f)

\* BaseIORedisConnectionPool._drop_closed: range(available()) iterations of
\* "look at free[0]; popleft if it is not connected, else rotate(1)".
RECURSIVE DropLoop(_, _, _)
DropLoop(f, k, cs) ==
    IF k = 0 THEN f
    ELSE IF ~IsConnected(cs, f[1]) THEN DropLoop(Tail(f), k - 1, cs)
         ELSE DropLoop(Rotate(f), k - 1, cs)

DropClosed(f, cs) == DropLoop(f, Available(f), cs)

\* BaseIORedisConnectionPool._get_conn: <<connection or NoConn, free after>>.
RECURSIVE GetLoop(_, _, _)
GetLoop(f, k, cs) ==
    IF k = 0 THEN <<NoConn, f>>
    ELSE IF IsConnected(cs, f[1]) THEN <<f[1], Rotate(f)>>
         ELSE GetLoop(Rotate(f), k - 1, cs)

GetConnPeek(f, cs) ==
    IF Len(f) = 0 THEN <<NoConn, f>>
    ELSE <<GetLoop(f, Available(f), cs)[1], f>>
GetConn(f, cs) ==
    IF Len(f) = 0 THEN <<NoConn, f>> ELSE GetLoop(f, Available(f), cs)

\* The loop conditions of iterconn, evaluated after _drop_closed: which loop
\* constructs the next connection, or "done" when the generator is exhausted.
IterDecideMinOffByOne(f, iu, acq, phase, override, mn, mx) ==
    IF phase = "min" /\ Size(f, iu, acq) < mn - 1 THEN "min"
    ELSE IF override /\ Size(f, iu, acq) < mx /\ Available(f) = 0 THEN "over"
    ELSE "done"
IterDecideNoMax(f, iu, acq, phase, override, mn, mx) ==
    IF phase = "min" /\ Size(f, iu, acq) < mn THEN "min"
    ELSE IF override /\ Available(f) = 0 THEN "over"
    ELSE "done"
IterDecideNoAvailable(f, iu, acq, phase, override, mn, mx) ==
    IF phase = "min" /\ Size(f, iu, acq) < mn THEN "min"
    ELSE IF override /\ Size(f, iu, acq) < mx THEN "over"
    ELSE "done"
IterDecide(f, iu, acq, phase, override, mn, mx) ==
    IF phase = "min" /\ Size(f, iu, acq) < mn THEN "min"
    ELSE IF override /\ Size(f, iu, acq) < mx /\ Available(f) = 0 THEN "over"
    ELSE "done"

\* ------------------------------------------------- cooperative pool (aio)
\* The pool's state as one record; an operation maps it to the state at the
\* caller's next suspension point.
Cur ==
    [free |-> free, inuse |-> inuse, acquiring |-> acquiring,
     cstate |-> cstate, made |-> made, lock |-> lock, cwait |-> cwait,
     wakeups |-> wakeups, pc |-> pc, tconn |-> tconn, tphase |-> tphase,
     targ |-> targ, fillsize |-> fillsize]

\* A connection no longer referenced by the pool or by a caller is garbage:
\* its identity is free for the next make_connection().
Referenced(r, c) ==
    \/ c \in Range(r.free)
    \/ c \in r.inuse
    \/ \E t \in Task : r.tconn[t] = c

PVars(r) ==
    /\ free' = r.free
    /\ inuse' = r.inuse
    /\ acquiring' = r.acquiring
    /\ cstate' = [c \in Conn |->
                    IF ~Referenced(r, c) THEN "none"
                    ELSE r.cstate[c]]
    /\ made' = r.made
    /\ lock' = r.lock
    /\ cwait' = r.cwait
    /\ wakeups' = r.wakeups
    /\ pc' = r.pc
    /\ tconn' = r.tconn
    /\ tphase' = r.tphase
    /\ targ' = r.targ
    /\ fillsize' = r.fillsize
    /\ UNCHANGED <<maxc, minc>>

PSet(r) ==
    /\ PVars(r)
    /\ UNCHANGED connvars
    /\ UNCHANGED cnvars
    /\ UNCHANGED pipevars
    /\ UNCHANGED txnvars
    /\ UNCHANGED discvars
    /\ UNCHANGED fnvars
    /\ UNCHANGED <<failvars, prvars>>

Commit(r) == PSet(r) /\ UNCHANGED clvars

\* Parsed replies: a value, a ResponseError, nil, or an array of replies.
\* "by" is the command whose callback has been applied to the reply.
Value(n) == [kind |-> "val", n |-> n, by |-> 0, items |-> <<>>]
Error(n) == [kind |-> "err", n |-> n, by |-> 0, items |-> <<>>]
Nil == [kind |-> "nil", n |-> 0, by |-> 0, items |-> <<>>]
List(s) == [kind |-> "list", n |-> 0, by |-> 0, items |-> s]
NoValue == [kind |-> "none", n |-> 0, by |-> 0, items |-> <<>>]

\* What a call of the operator gives: out is "return", "raise" or "error"
\* (an exception object is returned, which the driver raises to the caller).
Out(out, exc, replies, errors) ==
    [out |-> out, exc |-> exc, replies |-> replies, errors |-> errors]
NoOut == Out("none", "none", <<>>, {})
NoSan ==
    [exc |-> "none", watch_error |-> NoValue, exec_response |-> NoValue,
     rest |-> <<>>]

\* SansIORedisProtocol.make_pipeline(transaction=t), as PipelineMixin calls
\* it: commands is left at its default, None.
MakePipeline(t) ==
    [none |-> TRUE, commands |-> <<>>, transaction |-> t,
     raise_on_error |-> FALSE]

\* ClientInfo() and AddressInfo() with their defaults; no routine compiled,
\* no health check made.
NoPacked ==
    [none |-> TRUE, pipeline |-> FALSE, raise_on_error |-> FALSE,
     commands |-> <<>>, payload |-> <<>>]
HInf == MaxClock + 1     \* float("inf")
OcQuiet ==
    /\ ocfg = [version |-> <<>>, username |-> "None", password |-> "None",
               name |-> "None", db |-> "None", resp |-> "None"]
    /\ oret = [done |-> FALSE, init |-> NoPacked, stack |-> NoPacked,
               resp |-> "None"]
HcQuiet ==
    /\ hinterval = 0
    /\ hnext = HInf
    /\ hclock = 0
    /\ hping = -1
    /\ hseen = [clock |-> 0, next |-> 0]

\* No pipeline object of the client exists.
ClQuiet ==
    /\ ptransaction = FALSE
    /\ pinned = NoConn
    /\ watching = FALSE
    /\ explicit_transaction = FALSE
    /\ stack = MakePipeline(FALSE)
    /\ lastop = "new"
    /\ lastres = "ok"
    /\ unwatch = "none"
    /\ dpc = "idle"
    /\ darg = FALSE
    /\ dfail = {}
    /\ dtasks = <<>>
    /\ dran = {}
    /\ dout = NoConn
    /\ dfree0 = <<>>
    /\ dinuse0 = {}
    /\ OcQuiet
    /\ HcQuiet

\* No pipeline is given to the operator.
TxnQuiet ==
    /\ tcmds = <<>>
    /\ ttrans = FALSE
    /\ troe = FALSE
    /\ treply = <<>>
    /\ tdone = FALSE
    /\ tout = NoOut
    /\ tsan = NoSan

\* The connection of the driver specifications, before it is constructed.
ConnQuiet ==
    /\ pstate = "not_connected"
    /\ pexc = "none"
    /\ transport = "none"
    /\ pwaiters = <<>>
    /\ fut = [i \in Cmd |-> [st |-> "none", reply |-> 0]]
    /\ sent = 0
    /\ raised = "none"
    /\ wire = <<>>
    /\ emitted = 0
    /\ pushed = 0
    /\ rbuf = <<>>
    /\ unpaired = FALSE
    /\ rpc = "none"
    /\ spc = [u \in Sender |-> "idle"]
    /\ swr = [u \in Sender |-> 0]
    /\ cpc = [t \in Task |-> "idle"]
    /\ clock = NoTask
    /\ cres = [t \in Task |-> "none"]
    /\ connection = FALSE
    /\ opening = 0
    /\ socks = 0
    /\ opens = 0
    /\ hsent = 0
    /\ dwset = FALSE
    /\ plen = [i \in Cmd |-> 0]
    /\ rtag = <<>>
    /\ ppay = [n |-> 0, frames |-> <<>>]
    /\ rerr = {}
    /\ fdisc = FALSE
    /\ ppc = "idle"
    /\ got = <<>>
    /\ opc = "idle"
    /\ osent = <<>>

PoolInit ==
    /\ ConnQuiet
    /\ TxnQuiet
    /\ ClQuiet
    /\ maxc \in 1..MaxM
    /\ minc \in 0..maxc
    /\ free = <<>>
    /\ inuse = {}
    /\ acquiring = 0
    /\ cstate = [c \in Conn |-> "none"]
    /\ made = 0
    /\ lock = NoTask
    /\ cwait = <<>>
    /\ wakeups = 0
    /\ pc = [t \in Task |-> "idle"]
    /\ tconn = [t \in Task |-> NoConn]
    /\ tphase = [t \in Task |-> "min"]
    /\ targ = [t \in Task |-> <<FALSE, FALSE>>]
    /\ fillsize = [t \in Task |-> -1]

\* _drop_closed() as the first statement of iterconn and after each yield.
Dropped(r) == [r EXCEPT !.free = DropClosed(r.free, r.cstate)]

\* iterconn up to its yield: acquiring += 1; c = make_connection(); yield c.
\* The caller is then suspended in "await conn.connect()" at `at`.
NewConn(r) == CHOOSE c \in Conn : r.cstate[c] = "none" /\
                   \A d \in Conn : r.cstate[d] = "none" => c <= d

MakeConn(r, t, phase, at) ==
    [r EXCEPT !.made = IF @ < MaxMade THEN @ + 1 ELSE @,
              !.acquiring = @ + 1,
              !.cstate[NewConn(r)] = "connecting",
              !.pc[t] = at,
              !.tconn[t] = NewConn(r),
              !.tphase[t] = phase]

\* conn.connect() returned in fill: free.append(conn); then the generator's
\* finally (acquiring -= 1) and _drop_closed().
Connected(r, t) ==
    Dropped([r EXCEPT !.cstate[r.tconn[t]] = "connected",
                      !.free = AppendMax(@, r.tconn[t], maxc),
                      !.acquiring = @ - 1,
                      !.tconn[t] = NoConn])

\* conn.connect() raised in fill: the generator is closed (acquiring -= 1).
ConnectFailedKeepsCount(r, t) ==
    [r EXCEPT !.cstate[r.tconn[t]] = "closed",
              !.pc[t] = "idle",
              !.tconn[t] = NoConn,
              !.tphase[t] = "min"]
ConnectFailed(r, t) ==
    [r EXCEPT !.cstate[r.tconn[t]] = "closed",
              !.acquiring = @ - 1,
              !.pc[t] = "idle",
              !.tconn[t] = NoConn,
              !.tphase[t] = "min"]

\* What iterconn does next for caller t of fill(override_min=override).
Decide(r, t, phase, override) ==
    IterDecide(r.free, r.inuse, r.acquiring, phase, override, minc, maxc)

\* At most MaxWakeups _wakeup() tasks are scheduled and not yet run.  A
\* caller starts a step that schedules one only while a slot stays free for
\* the lock's holder, which schedules one before it lets the lock go.
MaySchedule == wakeups < MaxWakeups - 1

\* An operation that constructs a connection needs an unused identity.
CanGo(r, t, phase, override) ==
    Decide(r, t, phase, override) # "done" =>
        \E c \in Conn : r.cstate[c] = "none"

\* AsyncIORedisConnectionPool.acquire from the end of _drop_closed in fill to
\* the caller's next suspension: the rest of fill(override_min=True), then
\* either popleft/inuse.add/return or _connection_waiter.wait().
AcqContinue(r, t, phase) ==
    LET d == Decide(r, t, phase, TRUE) IN
    IF d # "done" THEN MakeConn(r, t, d, "acq_conn")
    ELSE LET w == [r EXCEPT !.wakeups = @ + 1, !.lock = NoTask,
                            !.tphase[t] = "min"] IN
         IF Available(w.free) > 0
         THEN [w EXCEPT !.free = Tail(@),
                        !.inuse = @ \cup {Head(w.free)},
                        !.pc[t] = "use",
                        !.tconn[t] = Head(w.free)]
         ELSE [w EXCEPT !.cwait = Append(@, t), !.pc[t] = "acq_wait"]

\* BaseIORedisConnectionPool.execute_command: the fast path through
\* _get_conn, else _wait_execute_command (pool.connection() -> acquire).
ExecFrom(t, at) ==
    /\ pc[t] = at
    /\ LET g == GetConn(free, cstate) IN
       Commit(IF g[1] # NoConn
              THEN [Cur EXCEPT !.free = g[2], !.pc[t] = "fast",
                               !.tconn[t] = g[1]]
              ELSE [Cur EXCEPT !.free = g[2], !.pc[t] = "acq_lock"])

ExecuteCommand(t) == ExecFrom(t, "idle")

\* The reply (or the error) of a command sent on the fast path arrives.
FastFinish(t) ==
    /\ pc[t] = "fast"
    /\ Commit([Cur EXCEPT !.pc[t] = "idle", !.tconn[t] = NoConn])

\* AsyncIORedisConnectionPool.acquire called directly or through
\* pool.connection(): the caller queues for the lock of the condition.
Acquire(t) ==
    /\ pc[t] = "idle"
    /\ Commit([Cur EXCEPT !.pc[t] = "acq_lock"])

\* "async with self._connection_waiter" is entered, at the top of acquire or
\* when wait() takes the lock again after a notify, and one pass of the loop
\* of acquire runs from fill(override_min=True) to the next suspension.
AcqFill(t) ==
    /\ pc[t] = "acq_lock"
    /\ lock = NoTask
    /\ MaySchedule
    /\ CanGo(Dropped(Cur), t, "min", TRUE)
    /\ Commit(AcqContinue(Dropped([Cur EXCEPT !.lock = t]), t, "min"))

AcqConnected(t) ==
    /\ pc[t] = "acq_conn"
    /\ CanGo(Connected(Cur, t), t, tphase[t], TRUE)
    /\ Commit(AcqContinue(Connected(Cur, t), t, tphase[t]))

\* The error of connect() leaves acquire, which lets the lock go.
AcqConnectFail(t) ==
    /\ pc[t] = "acq_conn"
    /\ Commit([ConnectFailed(Cur, t) EXCEPT !.lock = NoTask])

\* AsyncIORedisConnectionPool._wakeup: notify() one waiter under the lock.
Wakeup ==
    /\ wakeups > 0
    /\ lock = NoTask
    /\ Commit(IF cwait # <<>>
              THEN [Cur EXCEPT !.wakeups = @ - 1,
                               !.pc[Head(cwait)] = "acq_lock",
                               !.cwait = Tail(@)]
              ELSE [Cur EXCEPT !.wakeups = @ - 1])


\* connection.disconnect(): closes a connected connection, else returns.
ConnDisconnect(cs, c) ==
    IF IsConnected(cs, c) THEN [cs EXCEPT ![c] = "disconnected"] ELSE cs

\* AsyncIORedisConnectionPool.release(connection), up to its return.
ReleaseKeepsInUse(r, c) ==
    IF c \notin r.inuse
    THEN [r EXCEPT !.cstate = ConnDisconnect(@, c)]
    ELSE [r EXCEPT !.free = IF IsConnected(r.cstate, c)
                            THEN AppendMax(@, c, maxc) ELSE @,
                   !.wakeups = @ + 1]
ReleaseAppendsClosed(r, c) ==
    IF c \notin r.inuse
    THEN [r EXCEPT !.cstate = ConnDisconnect(@, c)]
    ELSE [r EXCEPT !.inuse = @ \ {c},
                   !.free = AppendMax(@, c, maxc),
                   !.wakeups = @ + 1]
Release(r, c) ==
    IF c \notin r.inuse
    THEN \* not ours: "await connection.disconnect()" and return
         [r EXCEPT !.cstate = ConnDisconnect(@, c)]
    ELSE [r EXCEPT !.inuse = @ \ {c},
                   !.free = IF IsConnected(r.cstate, c)
                            THEN AppendMax(@, c, maxc) ELSE @,
                   !.wakeups = @ + 1]

\* The holder of an acquired connection is done with it (its command got a
\* reply or an error) and releases it: _AsyncIOPoolConnectionContext.__aexit__.
Finish(t) ==
    /\ pc[t] = "use"
    /\ tconn[t] \in inuse => MaySchedule
    /\ Commit([Release(Cur, tconn[t]) EXCEPT !.pc[t] = "released"])

\* release() has returned to its caller.
ReleaseReturn(t) ==
    /\ pc[t] = "released"
    /\ Commit([Cur EXCEPT !.pc[t] = "idle", !.tconn[t] = NoConn])

\* A caller releases its connection again after release() took it back.
ReleaseAgain(t) ==
    /\ pc[t] = "released"
    /\ tconn[t] \in inuse => MaySchedule
    /\ Commit(Release(Cur, tconn[t]))

\* AsyncIORedisConnectionPool.fill(override_min=False) from the end of
\* _drop_closed to the next suspension, or to its return.
FillContinue(r, t, phase) ==
    LET d == Decide(r, t, phase, FALSE) IN
    IF d # "done" THEN MakeConn(r, t, d, "fill_conn")
    ELSE [r EXCEPT !.wakeups = @ + 1,
                   !.fillsize[t] = Size(r.free, r.inuse, r.acquiring),
                   !.pc[t] = "filled",
                   !.tphase[t] = "min"]

FillGuard(r, t, phase) ==
    /\ CanGo(r, t, phase, FALSE)
    /\ Decide(r, t, phase, FALSE) = "done" => MaySchedule

Fill(t) ==
    /\ pc[t] = "idle"
    /\ FillGuard(Dropped(Cur), t, "min")
    /\ Commit(FillContinue(Dropped(Cur), t, "min"))

FillConnected(t) ==
    /\ pc[t] = "fill_conn"
    /\ FillGuard(Connected(Cur, t), t, tphase[t])
    /\ Commit(FillContinue(Connected(Cur, t), t, tphase[t]))

FillConnectFail(t) ==
    /\ pc[t] = "fill_conn"
    /\ Commit(ConnectFailed(Cur, t))

\* fill() has returned to its caller.
FillReturn(t) ==
    /\ pc[t] = "filled"
    /\ Commit([Cur EXCEPT !.pc[t] = "idle", !.fillsize[t] = -1])

\* AsyncIORedisConnectionPool.disconnect(inuse=iu), or reset(inuse=iu) when
\* rs: the caller queues for the lock.
Disconnect(t, iu, rs) ==
    /\ pc[t] = "idle"
    /\ Commit([Cur EXCEPT !.pc[t] = "disc_lock", !.targ[t] = <<iu, rs>>])

\* disconnect() under the lock: free (and inuse) are drained and every
\* drained connection is disconnected by the gathered tasks.
DiscDrain(t) ==
    /\ pc[t] = "disc_lock"
    /\ lock = NoTask
    /\ MaySchedule
    /\ LET gone == Range(free) \cup (IF targ[t][1] THEN inuse ELSE {}) IN
       Commit([Cur EXCEPT
           !.lock = t,
           !.free = <<>>,
           !.inuse = IF targ[t][1] THEN {} ELSE @,
           !.cstate = [c \in Conn |->
                         IF c \in gone THEN ConnDisconnect(cstate, c)[c]
                         ELSE cstate[c]],
           !.pc[t] = "disc_gather"])

\* gather() returned: the lock is let go; reset() goes on with fill().
DiscDone(t) ==
    /\ pc[t] = "disc_gather"
    /\ LET r == [Cur EXCEPT !.lock = NoTask, !.targ[t] = <<FALSE, FALSE>>] IN
       IF targ[t][2]
       THEN /\ CanGo(Dropped(r), t, "min", FALSE)
            /\ Commit(FillContinue(Dropped(r), t, "min"))
       ELSE Commit([r EXCEPT !.pc[t] = "idle"])

\* The server closes a connection: connection_lost, is_connected is false.
PeerClose(c) ==
    /\ cstate[c] = "connected"
    /\ Commit([Cur EXCEPT !.cstate[c] = "closed"])

Next ==
    \/ \E t \in Busy : ExecuteCommand(t)
    \/ \E t \in Busy : FastFinish(t)
    \/ \E t \in Busy : Acquire(t)
    \/ \E t \in Busy : AcqFill(t)
    \/ \E t \in Busy : AcqConnected(t)
    \/ \E t \in Busy : AcqConnectFail(t)
    \/ Wakeup
    \/ \E t \in Busy : Finish(t)
    \/ \E t \in Busy : ReleaseReturn(t)
    \/ \E t \in Busy : ReleaseAgain(t)
    \/ \E t \in Busy : Fill(t)
    \/ \E t \in Busy : FillConnected(t)
    \/ \E t \in Busy : FillConnectFail(t)
    \/ \E t \in Busy : FillReturn(t)
    \/ \E t \in Busy, iu \in BOOLEAN, rs \in BOOLEAN : Disconnect(t, iu, rs)
    \/ \E t \in Busy : DiscDrain(t)
    \/ \E t \in Busy : DiscDone(t)
    \/ \E c \in Conn : PeerClose(c)

Spec == PoolInit /\ [][Next]_vars

\* ------------------------------------------------------------------------
\* The threaded pool of src/redis/io/sio.py.  acquire runs under the lock of
\* the condition; release and its callers do not, so a step of release is one
\* statement.

\* SyncIORedisConnectionPool._wakeup: notify() one waiter under the lock.
Notify(r) ==
    IF r.cwait # <<>>
    THEN [r EXCEPT !.pc[Head(r.cwait)] = "acq_lock", !.cwait = Tail(@)]
    ELSE r

\* "self._wakeup()" as the last statement of release.
ReleaseNoWakeup(r) == r
ReleaseWakeup(r) == Notify(r)

\* "with self._connection_waiter" is entered, at the top of acquire or when
\* wait() takes the lock again after a notify.
TLock(t) ==
    /\ pc[t] = "acq_lock"
    /\ lock = NoTask
    /\ Commit([Cur EXCEPT !.lock = t, !.pc[t] = "t_iter", !.tphase[t] = "min"])

\* fill(override_min=True) inside acquire: iterconn drops the closed
\* connections and yields a new connection, or ends and fill calls _wakeup.
TIter(t) ==
    /\ pc[t] = "t_iter"
    /\ LET r == Dropped(Cur)
           d == Decide(r, t, tphase[t], TRUE) IN
       Commit(IF d # "done" THEN MakeConn(r, t, d, "t_conn")
              ELSE Notify([r EXCEPT !.pc[t] = "t_avail", !.tphase[t] = "min"]))

\* conn.connect() returned: free.append(conn), and iterconn goes on.
TConnected(t) ==
    /\ pc[t] = "t_conn"
    /\ Commit([Connected(Cur, t) EXCEPT !.pc[t] = "t_iter"])

\* "if self.available()": popleft, inuse.add and return, or go to wait().
TAvail(t) ==
    /\ pc[t] = "t_avail"
    /\ Commit(IF Available(free) > 0
              THEN [Cur EXCEPT !.free = Tail(@),
                               !.inuse = @ \cup {Head(free)},
                               !.lock = NoTask,
                               !.pc[t] = "use",
                               !.tconn[t] = Head(free)]
              ELSE [Cur EXCEPT !.pc[t] = "t_block"])

\* self._connection_waiter.wait(): the lock is let go and the caller blocks.
TBlock(t) ==
    /\ pc[t] = "t_block"
    /\ Commit([Cur EXCEPT !.lock = NoTask, !.cwait = Append(@, t),
                          !.pc[t] = "acq_wait"])

\* release: "if connection not in self.inuse: disconnect; return", else
\* "self.inuse.remove(connection)".
TRelease(t) ==
    /\ pc[t] = "use"
    /\ Commit(IF tconn[t] \notin inuse
              THEN [Cur EXCEPT !.cstate = ConnDisconnect(@, tconn[t]),
                               !.pc[t] = "idle", !.tconn[t] = NoConn]
              ELSE [Cur EXCEPT !.inuse = @ \ {tconn[t]},
                               !.pc[t] = "t_rel_app"])

\* release: "if connection.is_connected: self.free.append(connection)".
TRelAppend(t) ==
    /\ pc[t] = "t_rel_app"
    /\ Commit([Cur EXCEPT
           !.free = IF IsConnected(cstate, tconn[t])
                    THEN AppendMax(@, tconn[t], maxc) ELSE @,
           !.pc[t] = "t_rel_wake"])

\* release: "self._wakeup()", which needs the lock, and the return.
TRelWakeup(t) ==
    /\ pc[t] = "t_rel_wake"
    /\ lock = NoTask
    /\ Commit(ReleaseWakeup([Cur EXCEPT !.pc[t] = "idle",
                                        !.tconn[t] = NoConn]))

TStep(t) ==
    \/ TIter(t) \/ TConnected(t) \/ TAvail(t) \/ TBlock(t)
    \/ TRelease(t) \/ TRelAppend(t) \/ FastFinish(t)

TNext ==
    \/ \E t \in Busy : ExecuteCommand(t)
    \/ \E t \in Busy : FastFinish(t)
    \/ \E t \in Busy : TLock(t)
    \/ \E t \in Busy : TIter(t)
    \/ \E t \in Busy : TConnected(t)
    \/ \E t \in Busy : TAvail(t)
    \/ \E t \in Busy : TBlock(t)
    \/ \E t \in Busy : TRelease(t)
    \/ \E t \in Busy : TRelAppend(t)
    \/ \E t \in Busy : TRelWakeup(t)
    \/ \E c \in Conn : PeerClose(c)

\* Fair scheduling of the threads: a thread that can run does, and a thread
\* that asks for the lock again and again gets it.  Callers need not call,
\* and the server need not close.
TFair ==
    \A t \in Busy :
        /\ WF_vars(TStep(t))
        /\ SF_vars(TLock(t))
        /\ SF_vars(TRelWakeup(t))

SpecT == PoolInit /\ [][TNext]_vars /\ TFair

\* ------------------------------------------------------------------------
\* SyncIORedisConnectionPool.disconnect(inuse) among the threads that use
\* the pool: each of NTasks threads runs one execute_command, or one
\* disconnect(inuse=iu).

DrainInit ==
    /\ ConnQuiet
    /\ TxnQuiet
    /\ ClQuiet
    /\ maxc \in 1..MaxM
    /\ minc \in 0..1
    /\ free = <<>>
    /\ cstate = [c \in Conn |-> "none"]
    /\ made = 0
    /\ inuse = {}
    /\ acquiring = 0
    /\ lock = NoTask
    /\ cwait = <<>>
    /\ wakeups = 0
    /\ pc = [t \in Task |-> "new"]
    /\ tconn = [t \in Task |-> NoConn]
    /\ tphase = [t \in Task |-> "min"]
    /\ targ = [t \in Task |-> <<FALSE, FALSE>>]
    /\ fillsize = [t \in Task |-> -1]

DrainExecute(t) == ExecFrom(t, "new")

\* disconnect(inuse=iu): "with self._connection_waiter" is entered.
TDiscLock(t, iu) ==
    /\ pc[t] = "new"
    /\ lock = NoTask
    /\ Commit([Cur EXCEPT !.lock = t, !.pc[t] = "t_disc",
                          !.targ[t] = <<iu, FALSE>>])

\* disconnect: one pass of "while self.free: conn = self.free.pop();
\* conn.disconnect()", then of "while inuse and self.inuse: conn =
\* self.inuse.pop(); conn.disconnect()"; after the loops the lock is let go.
TDiscStep(t) ==
    /\ pc[t] = "t_disc"
    /\ IF free # <<>>
       THEN Commit([Cur EXCEPT
                !.free = SubSeq(@, 1, Len(@) - 1),
                !.cstate = ConnDisconnect(@, free[Len(free)])])
       ELSE IF targ[t][1] /\ inuse # {}
       THEN \E c \in inuse :
                Commit([Cur EXCEPT !.inuse = @ \ {c},
                                   !.cstate = ConnDisconnect(@, c)])
       ELSE Commit([Cur EXCEPT !.lock = NoTask, !.pc[t] = "idle",
                               !.targ[t] = <<FALSE, FALSE>>])

DrainNext ==
    \/ \E t \in Task : DrainExecute(t)
    \/ \E t \in Task : FastFinish(t)
    \/ \E t \in Task : TLock(t)
    \/ \E t \in Task : TIter(t)
    \/ \E t \in Task : TConnected(t)
    \/ \E t \in Task : TAvail(t)
    \/ \E t \in Task : TBlock(t)
    \/ \E t \in Task : TRelease(t)
    \/ \E t \in Task : TRelAppend(t)
    \/ \E t \in Task : TRelWakeup(t)
    \/ \E t \in Task, iu \in BOOLEAN : TDiscLock(t, iu)
    \/ \E t \in Task : TDiscStep(t)

\* Fair scheduling of the threads, as in TFair; a thread need not call
\* execute_command or disconnect.
DrainFair ==
    \A t \in Task :
        /\ WF_vars(TStep(t))
        /\ SF_vars(TLock(t))
        /\ SF_vars(TRelWakeup(t))
        /\ WF_vars(TDiscStep(t))

SpecDrain == DrainInit /\ [][DrainNext]_vars /\ DrainFair

\* ------------------------------------------------------------------------
\* Pool saturation: max_connections=2, min_connections=1, and each of NTasks
\* callers runs one execute_command that gets its reply.

SatInit ==
    /\ ConnQuiet
    /\ TxnQuiet
    /\ ClQuiet
    /\ maxc = 2
    /\ minc = 1
    /\ \E pre \in BOOLEAN :     \* the pool was entered ("async with"), or not
        /\ free = IF pre THEN <<1>> ELSE <<>>
        /\ cstate = [c \in Conn |-> IF pre /\ c = 1 THEN "connected" ELSE "none"]
        /\ made = IF pre THEN 1 ELSE 0
    /\ inuse = {}
    /\ acquiring = 0
    /\ lock = NoTask
    /\ cwait = <<>>
    /\ wakeups = 0
    /\ pc = [t \in Task |-> "new"]
    /\ tconn = [t \in Task |-> NoConn]
    /\ tphase = [t \in Task |-> "min"]
    /\ targ = [t \in Task |-> <<FALSE, FALSE>>]
    /\ fillsize = [t \in Task |-> -1]

SatExecute(t) == ExecFrom(t, "new")

SatNext ==
    \/ \E t \in Task : SatExecute(t)
    \/ \E t \in Task : FastFinish(t)
    \/ \E t \in Task : AcqFill(t)
    \/ \E t \in Task : AcqConnected(t)
    \/ Wakeup
    \/ \E t \in Task : Finish(t)
    \/ \E t \in Task : ReleaseReturn(t)

\* The event loop runs every task that is ready; a task that waits for the
\* lock, or for room to schedule a _wakeup() task, gets it when it comes
\* again and again.
SatFair ==
    /\ WF_vars(Wakeup)
    /\ \A t \in Task :
        /\ WF_vars(SatExecute(t))
        /\ WF_vars(FastFinish(t))
        /\ SF_vars(AcqFill(t))
        /\ WF_vars(AcqConnected(t))
        /\ SF_vars(Finish(t))
        /\ WF_vars(ReleaseReturn(t))

SpecSat == SatInit /\ [][SatNext]_vars /\ SatFair

\* ------------------------------------------------------------------------
\* One connection: the protocol object of the cooperative driver
\* (RedisAsyncIOProtocol) and of the threaded driver (RedisSyncIOProtocol),
\* the server's replies on the wire, and the parser's buffer.

\* The k-th reply as the server writes it: FrameLen bytes, the last one ends
\* the reply.
Encode(k) == [j \in 1..FrameLen |-> [reply |-> k, last |-> (j = FrameLen)]]

\* PythonBytesReader.feed: the bytes are appended to the parser's buffer.
Feed(buf, data) == buf \o data

\* PythonBytesReader.gets: the first complete reply of the buffer and the
\* bytes after it, or reply 0 (notEnoughData) and the buffer as it is.
FrameEnd(buf) ==
    IF \E j \in 1..Len(buf) : buf[j].last
    THEN CHOOSE j \in 1..Len(buf) :
             buf[j].last /\ \A i \in 1..(j - 1) : ~buf[i].last
    ELSE 0
Gets(buf) ==
    IF FrameEnd(buf) = 0 THEN [reply |-> 0, rest |-> buf]
    ELSE [reply |-> buf[FrameEnd(buf)].reply,
          rest |-> SubSeq(buf, FrameEnd(buf) + 1, Len(buf))]

\* self._waiters.popleft(): the oldest waiter and the others.
PopWaiterNewest(w) == <<w[Len(w)], SubSeq(w, 1, Len(w) - 1)>>
PopWaiter(w) == <<Head(w), Tail(w)>>

KCur ==
    [pstate |-> pstate, pexc |-> pexc, transport |-> transport,
     pwaiters |-> pwaiters, fut |-> fut, sent |-> sent, raised |-> raised,
     wire |-> wire, emitted |-> emitted, pushed |-> pushed, rbuf |-> rbuf,
     unpaired |-> unpaired, rpc |-> rpc, spc |-> spc, swr |-> swr]

KVars(k) ==
    /\ pstate' = k.pstate
    /\ pexc' = k.pexc
    /\ transport' = k.transport
    /\ pwaiters' = k.pwaiters
    /\ fut' = k.fut
    /\ sent' = k.sent
    /\ raised' = k.raised
    /\ wire' = k.wire
    /\ emitted' = k.emitted
    /\ pushed' = k.pushed
    /\ rbuf' = k.rbuf
    /\ unpaired' = k.unpaired
    /\ rpc' = k.rpc
    /\ spc' = k.spc
    /\ swr' = k.swr

KSet(k) ==
    /\ KVars(k)
    /\ UNCHANGED poolvars
    /\ UNCHANGED cnvars
    /\ UNCHANGED txnvars
    /\ UNCHANGED clvars
    /\ UNCHANGED discvars
    /\ UNCHANGED fnvars
    /\ UNCHANGED <<failvars, prvars>>

KCommit(k) == KSet(k) /\ UNCHANGED pipevars

\* The pool of the pool specifications, unused.
PoolQuiet ==
    /\ maxc = 1
    /\ minc = 0
    /\ free = <<>>
    /\ inuse = {}
    /\ acquiring = 0
    /\ cstate = [c \in Conn |-> "none"]
    /\ made = 0
    /\ lock = NoTask
    /\ cwait = <<>>
    /\ wakeups = 0
    /\ pc = [t \in Task |-> "idle"]
    /\ tconn = [t \in Task |-> NoConn]
    /\ tphase = [t \in Task |-> "min"]
    /\ targ = [t \in Task |-> <<FALSE, FALSE>>]
    /\ fillsize = [t \in Task |-> -1]

ConnInit == PoolQuiet /\ ConnQuiet /\ TxnQuiet /\ ClQuiet

\* _set_exception(exc)
SetExceptionOnly(k, exc) == [k EXCEPT !.pexc = exc]
SetException(k, exc) == [k EXCEPT !.pexc = exc, !.pstate = "error"]

\* The loop "for parsed in self.operator.iterparse()" of data_received and
\* of _read_response: each parsed reply goes to the waiter _get_fut /
\* _get_waiter pops; with no waiter left the connection is marked in error
\* and the loop goes on. set_result on a future that the timeout of
\* read_response has cancelled raises InvalidStateError out of
\* data_received, and the event loop closes the transport for it.
RECURSIVE ParseLoop(_)
ParseLoop(k) ==
    LET g == Gets(k.rbuf) IN
    IF g.reply = 0 THEN k
    ELSE IF k.pwaiters = <<>>
    THEN ParseLoop([SetException(k, "InvalidResponse") EXCEPT
                       !.rbuf = g.rest, !.unpaired = TRUE])
    ELSE IF k.fut[PopWaiter(k.pwaiters)[1]].st = "timeout"
    THEN [k EXCEPT !.rbuf = g.rest,
                   !.pwaiters = PopWaiter(@)[2],
                   !.transport = "fatal"]
    ELSE ParseLoop([k EXCEPT
                       !.rbuf = g.rest,
                       !.pwaiters = PopWaiter(@)[2],
                       !.fut[PopWaiter(k.pwaiters)[1]] =
                           [st |-> "result", reply |-> g.reply]])

\* The waiters appended to _waiters so far, and the next one.
Enqueued(k) == Cardinality({i \in Cmd : k.fut[i].st # "none"})
NewWaiter(k) ==
    [k EXCEPT !.pwaiters = Append(@, Enqueued(k) + 1),
              !.fut[Enqueued(k) + 1] = [st |-> "pending", reply |-> 0]]

\* What send_command raises when _state is not connected.
SendRaisesUnknown(k) == "Unknown"
SendRaises(k) ==
    IF k.pstate = "not_connected" THEN "LostOperator"
    ELSE IF k.pexc = "none" THEN "Unknown" ELSE k.pexc

\* The server answers a command it has read, in the order it read them.
ServerReply(k) ==
    [k EXCEPT !.wire = @ \o Encode(k.emitted + 1), !.emitted = @ + 1]

\* RedisAsyncIOProtocol.connection_made
ConnectionMade ==
    /\ transport = "none"
    /\ KCommit([KCur EXCEPT !.transport = "open", !.pstate = "connected"])

\* RedisAsyncIOProtocol.send_command
Sent(k0) ==
    LET k == [k0 EXCEPT !.sent = @ + 1, !.raised = "none"] IN
    IF k0.pstate = "connected"
    THEN IF k0.transport # "open"          \* self._transport.is_closing()
         THEN [k EXCEPT !.raised = "ConnectionClosed"]
         ELSE ServerReply(NewWaiter(k))
    ELSE [k EXCEPT !.raised = SendRaises(k0)]

SendCommand ==
    /\ sent < MaxCmds
    /\ KCommit(Sent(KCur))

\* The server writes a reply that no command asked for.
ServerPush ==
    /\ transport = "open"
    /\ pushed < MaxPush
    /\ KCommit(ServerReply([KCur EXCEPT !.pushed = @ + 1]))

\* RedisAsyncIOProtocol.data_received(data): data is the next n bytes.
DataReceived(n) ==
    /\ transport = "open"
    /\ n \in 1..Len(wire)
    /\ LET data == SubSeq(wire, 1, n)
           k == [KCur EXCEPT !.wire = SubSeq(@, n + 1, Len(wire))] IN
       KCommit(IF pstate # "connected" THEN k
               ELSE ParseLoop([k EXCEPT !.rbuf = Feed(@, data)]))

\* AsyncIORedisConnection.disconnect: close() of a connected connection.
ConnectionDisconnect ==
    /\ pstate = "connected"
    /\ transport = "open"
    /\ KCommit([KCur EXCEPT !.transport = "closing"])

\* The peer closes the stream (rst = FALSE) or the socket fails (rst = TRUE).
PeerCloses(rst) ==
    /\ transport = "open"
    /\ KCommit([KCur EXCEPT !.transport = IF rst THEN "broken" ELSE "closing"])

\* AsyncIORedisConnection.read_response(future): the timeout of the socket
\* expires before the reply of the i-th waiter has come; the await is
\* cancelled and RedisTimeoutError raised to the caller.
ReadTimeout(i) ==
    /\ fut[i].st = "pending"
    /\ KCommit([KCur EXCEPT !.fut[i].st = "timeout"])

\* RedisAsyncIOProtocol.connection_lost(exc), called by the event loop once
\* the transport is closed: exc is None after close() or end of stream.
ConnectionLost ==
    /\ transport \in {"closing", "broken", "fatal"}
    /\ LET k == [KCur EXCEPT !.transport = "closed", !.wire = <<>>] IN
       KCommit(IF transport = "broken" THEN SetException(k, "OSError")
               ELSE IF transport = "fatal"
               THEN SetException(k, "InvalidStateError")
               ELSE IF pstate = "connected"
               THEN SetException(k, "LostConnection")
               ELSE k)

ConnNext ==
    \/ ConnectionMade
    \/ SendCommand
    \/ ServerPush
    \/ \E n \in 1..(FrameLen * (MaxCmds + MaxPush)) : DataReceived(n)
    \/ \E i \in Cmd : ReadTimeout(i)
    \/ ConnectionDisconnect
    \/ \E rst \in BOOLEAN : PeerCloses(rst)
    \/ ConnectionLost

SpecConn == ConnInit /\ [][ConnNext]_vars

\* ------------------------------------------------------------------------
\* The threaded driver: the calling thread and the reader thread
\* (read_forever) share the protocol object without a lock; a step is one
\* statement that touches it.

\* RedisSyncIOProtocol.connection_made: the reader thread is started.
SioConnectionMade ==
    /\ transport = "none"
    /\ KCommit([KCur EXCEPT !.transport = "open", !.pstate = "connected",
                            !.rpc = "recv"])

\* The payloads written to the socket so far: those enqueued and those of
\* the threads between sendall() and the append.
Writes(k) ==
    Enqueued(k) + Cardinality({u \in Sender : k.spc[u] = "append"})

\* RedisSyncIOProtocol.send_command up to sendall(), or to its raise.
SioSend(u) ==
    /\ spc[u] = "idle"
    /\ sent < MaxCmds
    /\ LET k == [KCur EXCEPT !.sent = @ + 1, !.raised = "none"]
           w == [k EXCEPT !.spc[u] = "append", !.swr[u] = Writes(KCur) + 1] IN
       KCommit(
         IF pstate = "connected"
         THEN IF transport = "open"
              THEN ServerReply(w)
              ELSE w                              \* nobody reads the bytes
         ELSE [k EXCEPT !.raised = SendRaises(KCur)])

\* send_command: "self._waiters.append((event.command, future))".
SioAppendWaiter(u) ==
    /\ spc[u] = "append"
    /\ KCommit([KCur EXCEPT !.spc[u] = "idle", !.swr[u] = 0,
                            !.pwaiters = Append(@, swr[u]),
                            !.fut[swr[u]] = [st |-> "pending", reply |-> 0]])

\* _read_from_socket: recv() returns the next n bytes, which are fed to the
\* parser.
SioRecv(n) ==
    /\ rpc = "recv"
    /\ transport \in {"open", "closing"}
    /\ n \in 1..Len(wire)
    /\ KCommit([KCur EXCEPT !.wire = SubSeq(@, n + 1, Len(wire)),
                            !.rbuf = Feed(@, SubSeq(wire, 1, n)),
                            !.rpc = "resp"])

\* _read_from_socket: recv() returns no bytes at the end of the stream, or
\* fails on a closed or broken socket; the error is stored and leaves
\* read_forever.
SioRecvFails ==
    /\ rpc = "recv"
    /\ \/ transport = "closing" /\ wire = <<>>
       \/ transport \in {"broken", "closed"}
    /\ KCommit([SetException(KCur, IF transport = "closing"
                                   THEN "ServerClosed" ELSE "ReadError")
                EXCEPT !.rpc = "dead"])

\* RedisSyncIOProtocol._read_response
SioReadResponse ==
    /\ rpc = "resp"
    /\ LET k == [KCur EXCEPT !.rpc = "recv"] IN
       KCommit(IF pstate # "connected" \/ pwaiters = <<>>
               THEN [k EXCEPT !.unpaired =
                        @ \/ (Gets(rbuf).reply # 0 /\ pstate = "connected"
                              /\ \A u \in Sender : spc[u] = "idle")]
               ELSE ParseLoop(k))

\* SyncIORedisConnection.disconnect: the socket is shut down and closed and
\* connection_lost(None) runs up to "self._reader.shutdown(wait=True)".
SioDisconnect(u) ==
    /\ spc[u] = "idle"
    /\ pstate = "connected"
    /\ transport # "none"
    /\ LET k == [KCur EXCEPT !.transport = "closed", !.wire = <<>>,
                             !.spc[u] = "shutdown"] IN
       KCommit(SetException(k, "LostConnection"))

\* connection_lost: the reader thread has ended and shutdown() returns.
SioDisconnected(u) ==
    /\ spc[u] = "shutdown"
    /\ rpc = "dead"
    /\ KCommit([KCur EXCEPT !.spc[u] = "idle"])

\* The peer closes the stream (rst = FALSE) or the socket fails (rst = TRUE).
SioPeerCloses(rst) ==
    /\ transport = "open"
    /\ KCommit([KCur EXCEPT !.transport = IF rst THEN "broken" ELSE "closing",
                            !.wire = IF rst THEN <<>> ELSE @])

SioNext ==
    \/ SioConnectionMade
    \/ \E u \in Sender : SioSend(u)
    \/ \E u \in Sender : SioAppendWaiter(u)
    \/ ServerPush
    \/ \E n \in 1..(FrameLen * (MaxCmds + MaxPush)) : SioRecv(n)
    \/ SioRecvFails
    \/ SioReadResponse
    \/ \E u \in Sender : SioDisconnect(u)
    \/ \E u \in Sender : SioDisconnected(u)
    \/ \E rst \in BOOLEAN : SioPeerCloses(rst)

SpecSio == ConnInit /\ [][SioNext]_vars

\* ------------------------------------------------------------------------
\* AsyncIORedisConnection.connect(): the callers of connect() on one
\* connection, its lock _connectlock, its socket and the on-connect
\* handshake. A step runs a caller from one await to the next.

\* BaseIORedisConnection.is_connected: "self.connection and
\* self._ioprotocol.is_connected".
ConnIsConnected(conn, ps, tr) == conn /\ ps = "connected" /\ tr = "open"

\* exceptions.py: the exception classes that derive from RedisError.
\* AuthenticationError derives from the builtin ConnectionError only.
IsRedisError(e) ==
    e \in {"RedisConnectionError", "RedisTimeoutError", "InvalidResponse",
           "ResponseError", "WatchError", "PipelineResponseError"}

\* on_connect: what it raises for the server's answer o to the handshake:
\* an AuthenticationError as it is, another ResponseError wrapped by
\* protocol.connection_error.
OnConnectRaises(o) ==
    IF o = "ok" THEN "none"
    ELSE IF o = "auth" THEN "AuthenticationError"
    ELSE "RedisConnectionError"

\* "async with self._connectlock": the lock can be taken.
ConnectLockFreeAlways(l) == TRUE
ConnectLockFree(l) == l = NoTask

XCur ==
    [cpc |-> cpc, clock |-> clock, cres |-> cres, connection |-> connection,
     opening |-> opening, socks |-> socks, opens |-> opens, hsent |-> hsent,
     dwset |-> dwset, pstate |-> pstate, pexc |-> pexc,
     transport |-> transport]

XCommit(x) ==
    /\ cpc' = x.cpc
    /\ clock' = x.clock
    /\ cres' = x.cres
    /\ connection' = x.connection
    /\ opening' = x.opening
    /\ socks' = x.socks
    /\ opens' = x.opens
    /\ hsent' = x.hsent
    /\ dwset' = x.dwset
    /\ pstate' = x.pstate
    /\ pexc' = x.pexc
    /\ transport' = x.transport
    /\ UNCHANGED poolvars
    /\ UNCHANGED <<pwaiters, fut, sent, raised, wire, emitted, pushed, rbuf,
                   unpaired, rpc, spc, swr>>
    /\ UNCHANGED pipevars
    /\ UNCHANGED txnvars
    /\ UNCHANGED clvars
    /\ UNCHANGED discvars
    /\ UNCHANGED fnvars
    /\ UNCHANGED <<failvars, prvars>>

\* connect() leaves: the lock is released as "async with" exits.
ConnectReturns(x, t, res) ==
    [x EXCEPT !.cpc[t] = "idle", !.cres[t] = res,
              !.clock = IF @ = t THEN NoTask ELSE @]

\* connect() under the lock: the second test of is_connected, then
\* "await self._connect()".
ConnectLocked(x, t) ==
    IF ConnIsConnected(x.connection, x.pstate, x.transport)
    THEN ConnectReturns([x EXCEPT !.clock = t], t, "returned_in_lock")
    ELSE [x EXCEPT !.clock = t, !.cpc[t] = "open", !.opening = @ + 1]

\* A caller calls connect(): it returns at once on a connected connection,
\* goes on under the lock if the lock is free, else waits for the lock.
CnConnect(t) ==
    /\ cpc[t] = "idle"
    /\ ~ConnIsConnected(connection, pstate, transport)
           => opens + opening < MaxOpens
    /\ XCommit(IF ConnIsConnected(connection, pstate, transport)
               THEN ConnectReturns(XCur, t, "returned")
               ELSE IF ConnectLockFree(clock)
               THEN ConnectLocked(XCur, t)
               ELSE [XCur EXCEPT !.cpc[t] = "lock"])

\* A caller that waited for _connectlock gets it.
CnLock(t) ==
    /\ cpc[t] = "lock"
    /\ ConnectLockFree(clock)
    /\ XCommit(ConnectLocked(XCur, t))

\* _connect: create_connection returns after connection_made; on_connect
\* then sends the handshake and awaits its reply. The event loop runs the
\* connection_lost of the previous transport before this one is made.
CnOpened(t) ==
    /\ cpc[t] = "open"
    /\ transport \in {"none", "closed"}
    /\ XCommit([XCur EXCEPT !.transport = "open", !.pstate = "connected",
                            !.connection = TRUE, !.opening = @ - 1,
                            !.socks = @ + 1, !.opens = @ + 1,
                            !.hsent = @ + 1, !.cpc[t] = "hs"])

\* _connect fails or times out: connect() raises.
CnOpenFails(t) ==
    /\ cpc[t] = "open"
    /\ XCommit(ConnectReturns([XCur EXCEPT !.opening = @ - 1], t,
                              "OpenFailed"))

\* AsyncIORedisConnection.disconnect() as connect() calls it after a failed
\* handshake: close(), then wait_disconnected(), which does not wait once
\* _disconnect_waiter has been set.
ConnectCleanup(x, t, e) ==
    IF ~ConnIsConnected(x.connection, x.pstate, x.transport)
    THEN ConnectReturns(x, t, e)
    ELSE IF x.dwset
    THEN ConnectReturns([x EXCEPT !.transport = "closing",
                                  !.connection = FALSE], t, e)
    ELSE [x EXCEPT !.transport = "closing", !.cpc[t] = "disc",
                   !.cres[t] = e]

\* The reply to the handshake arrives (o: "ok", "auth" for an
\* authentication error, "resp" for another error reply) and connect() goes
\* on: "except exceptions.RedisError: await self.disconnect(); raise".
CnHandshakeReply(t, o) ==
    /\ cpc[t] = "hs"
    /\ transport = "open"
    /\ pstate = "connected"
    /\ XCommit(IF OnConnectRaises(o) = "none"
               THEN ConnectReturns(XCur, t, "ok")
               ELSE IF IsRedisError(OnConnectRaises(o))
               THEN ConnectCleanup(XCur, t, OnConnectRaises(o))
               ELSE ConnectReturns(XCur, t, OnConnectRaises(o)))

\* disconnect(): wait_disconnected() returns, "self.connection = None", and
\* connect() re-raises.
CnDisconnected(t) ==
    /\ cpc[t] = "disc"
    /\ dwset
    /\ XCommit(ConnectReturns([XCur EXCEPT !.connection = FALSE], t, cres[t]))

\* The peer closes the stream (rst = FALSE) or the socket fails (rst = TRUE).
CnPeerCloses(rst) ==
    /\ transport = "open"
    /\ XCommit([XCur EXCEPT !.transport = IF rst THEN "broken" ELSE "closing"])

\* connection_lost(exc) of the closed transport; the socket is closed.
CnConnectionLost ==
    /\ transport \in {"closing", "broken"}
    /\ LET x == [XCur EXCEPT !.transport = "closed", !.socks = @ - 1,
                             !.dwset = TRUE] IN
       XCommit(IF transport = "broken" THEN SetException(x, "OSError")
               ELSE IF pstate = "connected"
               THEN SetException(x, "LostConnection")
               ELSE x)

CnNext ==
    \/ \E t \in Task : CnConnect(t)
    \/ \E t \in Task : CnLock(t)
    \/ \E t \in Task : CnOpened(t)
    \/ \E t \in Task : CnOpenFails(t)
    \/ \E t \in Task : \E o \in {"ok", "auth", "resp"} : CnHandshakeReply(t, o)
    \/ \E t \in Task : CnDisconnected(t)
    \/ \E rst \in BOOLEAN : CnPeerCloses(rst)
    \/ CnConnectionLost

SpecConnect == ConnInit /\ [][CnNext]_vars

\* ------------------------------------------------------------------------
\* Pipelines on one connection of the cooperative driver: execute_pipeline
\* packs the event, send_command writes the payload and enqueues one waiter,
\* and data_received pairs the parsed replies with the waiters.

\* Writer._pack_command: the multi-bulk frame of one command.
PackCommand(c) == <<c>>

\* Writer._pack_pipeline: "output = bytearray(); for cmd in event.commands:
\* output = self._pack_command(cmd); return output".
RECURSIVE PackLoop(_, _, _)
PackLoop(cmds, i, output) ==
    IF i > Len(cmds) THEN output
    ELSE PackLoop(cmds, i + 1, PackCommand(cmds[i]))
PackPipeline(cmds) == PackLoop(cmds, 1, <<>>)

\* The server answers each frame of a payload it has read, in order.
RECURSIVE ServerReplies(_, _)
ServerReplies(k, n) ==
    IF n = 0 THEN k ELSE ServerReplies(ServerReply(k), n - 1)

\* execute_pipeline(event) with n commands on a connected connection:
\* pack_command, then send_command writes the payload and appends the one
\* waiter of the event.
PipeSend(n) ==
    /\ sent < MaxCmds
    /\ pstate = "connected"
    /\ transport = "open"
    /\ LET w == Enqueued(KCur) + 1
           payload == PackPipeline([c \in 1..n |-> c])
           k == NewWaiter([KCur EXCEPT !.sent = @ + 1, !.raised = "none"]) IN
       /\ KSet(ServerReplies(k, Len(payload)))
       /\ plen' = [plen EXCEPT ![w] = n]
       /\ rtag' = rtag \o [j \in 1..Len(payload) |-> <<w, payload[j]>>]
       /\ ppay' = [n |-> n, frames |-> payload]

PipeNext ==
    \/ ConnectionMade
    \/ \E n \in 1..MaxPipe : PipeSend(n)
    \/ \E n \in 1..(FrameLen * MaxPipe * MaxCmds) : DataReceived(n)

SpecPipe == ConnInit /\ [][PipeNext]_vars

\* ------------------------------------------------------------------------
\* RedisOperator: the normalization of the replies of a pipeline.

Min(a, b) == IF a < b THEN a ELSE b

\* isinstance(reply, exceptions.ResponseError)
IsResponseError(v) == v.kind \in {"err", "perr", "annotated"}

\* errors.parse_error(str(reply)): the classified error.
ParseError(v) == [v EXCEPT !.kind = "perr"]

\* cmd.callback(reply, **cmd.callback_kwargs) of command c.
Callback(c, v) == [v EXCEPT !.by = c]

\* events.Response(command=cmd, reply=reply)
Response(cmd, reply) == [cmd |-> cmd.id, reply |-> reply]

\* A call of _annotate_exception with the keyword arguments kw: its only
\* parameter is the keyword-only "errors".
AnnotateCall(kw) == IF kw = {"errors"} THEN "ok" ELSE "TypeError"

\* _iter_responses(commands=, replies=): zip(commands, replies).
IterResponsesSkipErrors(commands, replies) ==
    LET kept == SelectSeq([i \in 1..Min(Len(commands), Len(replies)) |->
                              [c |-> commands[i], r |-> replies[i]]],
                          LAMBDA x : ~IsResponseError(x.r)) IN
    [i \in 1..Len(kept) |->
        Response(kept[i].c,
                 IF kept[i].c.cb THEN Callback(kept[i].c.id, kept[i].r)
                 ELSE kept[i].r)]
IterResponses(commands, replies) ==
    [i \in 1..Min(Len(commands), Len(replies)) |->
        Response(commands[i],
                 IF IsResponseError(replies[i]) THEN ParseError(replies[i])
                 ELSE IF commands[i].cb
                 THEN Callback(commands[i].id, replies[i])
                 ELSE replies[i])]

\* _response_or_exc(commands=, replies=, response=); errors holds, for each
\* failing command, the position and the verb that _annotate_exception
\* writes into its message.
ResponseOrExcFromZero(commands, replies) ==
    LET rs == IterResponses(commands, replies)
        errs == {<<i - 1, rs[i].cmd>> : i \in {j \in 1..Len(rs) :
                                                 IsResponseError(rs[j].reply)}}
        good == SelectSeq(rs, LAMBDA r : ~IsResponseError(r.reply)) IN
    IF errs = {} THEN Out("return", "none", good, {})
    ELSE Out("error", "PipelineResponseError", <<>>, errs)
ResponseOrExc(commands, replies) ==
    LET rs == IterResponses(commands, replies)
        errs == {<<i, rs[i].cmd>> : i \in {j \in 1..Len(rs) :
                                             IsResponseError(rs[j].reply)}}
        good == SelectSeq(rs, LAMBDA r : ~IsResponseError(r.reply)) IN
    IF errs = {} THEN Out("return", "none", good, {})
    ELSE IF AnnotateCall({"errors"}) = "ok"
    THEN Out("error", "PipelineResponseError", <<>>, errs)
    ELSE Out("raise", AnnotateCall({"errors"}), <<>>, {})

\* list.insert(i, e), i counted from 0.
InsertAt(s, i, e) ==
    SubSeq(s, 1, Min(i, Len(s))) \o <<e>> \o SubSeq(s, Min(i, Len(s)) + 1, Len(s))

\* "for i, err in exc_errors.items(): exec_response.insert(i, err)": the
\* errors of the positions pos (from 0), in increasing order.
RECURSIVE InsertErrors(_, _, _)
InsertErrors(body, pos, acks) ==
    IF pos = {} THEN body
    ELSE LET i == CHOOSE x \in pos : \A y \in pos : x <= y IN
         InsertErrors(InsertAt(body, i, [acks[i + 1] EXCEPT !.kind = "annotated"]),
                      pos \ {i}, acks)

\* _sanity_check_transaction(commands=, replies=); rest is the list replies
\* as the two pops leave it.
SanityCheckTransaction(commands, replies) ==
    LET watch_response == replies[1]
        exec_response == replies[Len(replies)]
        rest == SubSeq(replies, 2, Len(replies) - 1)
        watch_error == IF IsResponseError(watch_response)
                       THEN ParseError(watch_response) ELSE NoValue
        pos == {i \in 0..(Min(Len(commands), Len(rest)) - 1) :
                   IsResponseError(rest[i + 1])}
        san(exc, body) == [exc |-> exc, watch_error |-> watch_error,
                           exec_response |-> body, rest |-> rest] IN
    IF pos # {} /\ AnnotateCall({"command", "reply", "pos"}) # "ok"
    THEN san(AnnotateCall({"command", "reply", "pos"}), exec_response)
    ELSE IF IsResponseError(exec_response)
    THEN san(IF pos # {} THEN "PipelineResponseError" ELSE "ResponseError",
             exec_response)
    ELSE IF exec_response.kind = "nil"
    THEN san("WatchError", exec_response)
    ELSE LET body == InsertErrors(exec_response.items, pos, rest) IN
         IF Len(body) # Len(commands)
         THEN san("ResponseError: wrong number of response items", List(body))
         ELSE san("none", List(body))

\* _read_pipelined_response(event, reply)
ReadPipelinedResponse(commands, reply, transaction, raise_on_error) ==
    IF transaction
    THEN LET sc == SanityCheckTransaction(commands, reply) IN
         IF sc.exc # "none" THEN Out("raise", sc.exc, <<>>, {})
         ELSE IF raise_on_error
         THEN IF sc.watch_error.kind # "none"
              THEN Out("error", "ResponseError", <<>>, {})
              ELSE ResponseOrExc(commands, sc.rest)
         ELSE Out("return", "none",
                  (IF sc.watch_error.kind # "none"
                   THEN <<[cmd |-> 0, reply |-> sc.watch_error]>> ELSE <<>>)
                  \o IterResponses(commands, sc.exec_response.items), {})
    ELSE IF raise_on_error THEN ResponseOrExc(commands, reply)
    ELSE Out("return", "none", IterResponses(commands, reply), {})

\* The replies one command of a pipeline can get, and the bodies of the
\* reply to EXEC.
ItemValues == {Value(1), Value(2), Error(3)}
ExecBodies ==
    {Nil, Error(4)} \cup
    {List(s) : s \in UNION {[1..n -> ItemValues] : n \in 0..MaxTxn}}

\* A pipeline of 1..MaxTxn commands, with or without callbacks, and its
\* replies: [watch_ack, cmd_acks..., exec_body] for a transaction, one
\* reply per command otherwise.
TxnInit ==
    /\ PoolQuiet
    /\ ConnQuiet
    /\ ClQuiet
    /\ tdone = FALSE
    /\ tout = NoOut
    /\ tsan = NoSan
    /\ ttrans \in BOOLEAN
    /\ troe \in BOOLEAN
    /\ \E k \in 1..MaxTxn :
         /\ \E cb \in [1..k -> BOOLEAN] :
               tcmds = [i \in 1..k |-> [id |-> i, cb |-> cb[i]]]
         /\ IF ttrans
            THEN \E w \in {Value(0), Error(5)} :
                 \E acks \in [1..k -> {Value(9), Error(6)}] :
                 \E b \in ExecBodies :
                     treply = <<w>> \o acks \o <<b>>
            ELSE treply \in [1..k -> ItemValues]

\* The operator normalizes the replies of the pipeline.
Normalize ==
    /\ ~tdone
    /\ tdone' = TRUE
    /\ tout' = ReadPipelinedResponse(tcmds, treply, ttrans, troe)
    /\ tsan' = IF ttrans THEN SanityCheckTransaction(tcmds, treply) ELSE NoSan
    /\ UNCHANGED <<tcmds, ttrans, troe, treply>>
    /\ UNCHANGED <<poolvars, connvars, cnvars, pipevars, clvars, discvars,
                   fnvars, failvars, prvars>>

TxnNext == Normalize

SpecTxn == TxnInit /\ [][TxnNext]_vars

\* ------------------------------------------ the pipeline of the client
\* One SyncIOPipeline, created by SyncIORedis.pipeline(transaction=...), and
\* one thread that calls its methods over a pool nobody else uses.  A step
\* is one call of a method, from entry to its return or its exception.
PlSet(tr, pin, w, e, st, op, res, u) ==
    /\ ptransaction' = tr
    /\ pinned' = pin
    /\ watching' = w
    /\ explicit_transaction' = e
    /\ stack' = st
    /\ lastop' = op
    /\ lastres' = res
    /\ unwatch' = u

\* PipelineMixin.__init__: explicit_transaction starts as the transaction
\* argument, which SyncIORedis.pipeline defaults to True.
ClInit ==
    /\ ConnQuiet
    /\ TxnQuiet
    /\ maxc \in 1..MaxM
    /\ minc = 0
    /\ free = <<>>
    /\ inuse = {}
    /\ acquiring = 0
    /\ cstate = [c \in Conn |-> "none"]
    /\ made = 0
    /\ lock = NoTask
    /\ cwait = <<>>
    /\ wakeups = 0
    /\ pc = [t \in Task |-> "idle"]
    /\ tconn = [t \in Task |-> NoConn]
    /\ tphase = [t \in Task |-> "min"]
    /\ targ = [t \in Task |-> <<FALSE, FALSE>>]
    /\ fillsize = [t \in Task |-> -1]
    /\ ptransaction \in BOOLEAN
    /\ pinned = NoConn
    /\ watching = FALSE
    /\ explicit_transaction = ptransaction
    /\ stack = MakePipeline(ptransaction)
    /\ lastop = "new"
    /\ lastres = "ok"
    /\ unwatch = "none"
    /\ dpc = "idle"
    /\ darg = FALSE
    /\ dfail = {}
    /\ dtasks = <<>>
    /\ dran = {}
    /\ dout = NoConn
    /\ dfree0 = <<>>
    /\ dinuse0 = {}
    /\ OcQuiet
    /\ HcQuiet

\* SyncIORedisConnectionPool.acquire by the only thread: fill(override_min=
\* True) constructs a connection when free is empty and the pool is below
\* max_connections; then free.popleft() goes to inuse.  When neither holds
\* the thread waits on the condition, and nobody will notify it.
SioCanAcquire(r) ==
    LET f == DropClosed(r.free, r.cstate) IN
    \/ Len(f) > 0
    \/ Size(f, r.inuse, r.acquiring) < maxc

\* ok: the connect() of a connection fill constructs succeeds.
SioAcquire(r, ok) ==
    LET f == DropClosed(r.free, r.cstate) IN
    IF Len(f) > 0
    THEN [c |-> Head(f),
          r |-> [r EXCEPT !.free = Tail(f), !.inuse = @ \cup {Head(f)}]]
    ELSE IF ok
    THEN [c |-> NewConn(r),
          r |-> [r EXCEPT !.free = f,
                          !.made = IF @ < MaxMade THEN @ + 1 ELSE @,
                          !.cstate[NewConn(r)] = "connected",
                          !.inuse = @ \cup {NewConn(r)}]]
    ELSE [c |-> NoConn,
          r |-> [r EXCEPT !.free = f,
                          !.made = IF @ < MaxMade THEN @ + 1 ELSE @]]

\* SyncIORedisConnectionPool.release(connection); _wakeup notifies nobody.
SioRelease(r, c) ==
    IF c = NoConn THEN r
    ELSE IF c \notin r.inuse
    THEN [r EXCEPT !.cstate = ConnDisconnect(@, c)]
    ELSE [r EXCEPT !.inuse = @ \ {c},
                   !.free = IF IsConnected(r.cstate, c)
                            THEN AppendMax(@, c, maxc) ELSE @]

\* PipelineMixin.watch(*names) with SyncIOPipeline._do_watch.
PlWatch(ok) ==
    IF explicit_transaction
    THEN /\ PlSet(ptransaction, pinned, watching, explicit_transaction,
                  stack, "watch", "RedisError", "none")
         /\ PSet(Cur)
    ELSE IF pinned # NoConn
    THEN /\ PlSet(ptransaction, pinned, watching, explicit_transaction,
                  stack, "watch",
                  IF IsConnected(cstate, pinned) THEN "ok"
                  ELSE "ConnectionError", "none")
         /\ PSet(Cur)
    ELSE /\ SioCanAcquire(Cur)
         /\ LET a == SioAcquire(Cur, ok) IN
            /\ PlSet(ptransaction, a.c, watching, explicit_transaction,
                     stack, "watch",
                     IF a.c = NoConn THEN "ConnectionError" ELSE "ok",
                     "none")
            /\ PSet(a.r)

\* PipelineMixin.multi()
PlMulti ==
    /\ IF explicit_transaction
       THEN PlSet(ptransaction, pinned, watching, explicit_transaction,
                  stack, "multi", "ok", "none")
       ELSE IF ~stack.none /\ stack.commands # <<>>
       THEN PlSet(ptransaction, pinned, watching, explicit_transaction,
                  stack, "multi", "RedisError", "none")
       ELSE PlSet(ptransaction, pinned, watching, TRUE, stack, "multi",
                  "ok", "none")
    /\ PSet(Cur)

\* PipelineMixin.execute_command(command, ...): extend_pipeline calls
\* pipeline.commands.extend(event), on None or with a Command, which is not
\* iterable.
PlCommand(command) ==
    /\ PlSet(ptransaction, pinned, watching, explicit_transaction, stack,
             "command",
             IF command = "WATCH" THEN "RedisError"
             ELSE IF stack.none THEN "AttributeError" ELSE "TypeError",
             "none")
    /\ PSet(Cur)

\* connection.execute_pipeline(stack): pack_command iterates
\* stack.commands, then the pipeline is sent and its replies are read.
ExecutePipelineRaises(st, cs, c) ==
    IF st.none THEN "TypeError"
    ELSE IF IsConnected(cs, c) THEN "ok" ELSE "ConnectionError"

\* PipelineMixin.execute(raise_on_error): the stack is replaced by a new
\* one and the old one goes to the pinned connection, else to the pool
\* (BaseIORedisConnectionPool.execute_pipeline).
PlExecute(roe, ok) ==
    LET old == [stack EXCEPT !.raise_on_error = roe]
        new == MakePipeline(stack.transaction)
        g == GetConn(free, cstate)
    IN
    IF pinned # NoConn
    THEN /\ PlSet(ptransaction, pinned, watching, explicit_transaction,
                  new, "execute",
                  ExecutePipelineRaises(old, cstate, pinned), "none")
         /\ PSet(Cur)
    ELSE IF g[1] # NoConn
    THEN /\ PlSet(ptransaction, pinned, watching, explicit_transaction,
                  new, "execute",
                  ExecutePipelineRaises(old, cstate, g[1]), "none")
         /\ PSet([Cur EXCEPT !.free = g[2]])
    ELSE /\ SioCanAcquire([Cur EXCEPT !.free = g[2]])
         /\ LET a == SioAcquire([Cur EXCEPT !.free = g[2]], ok) IN
            /\ PlSet(ptransaction, pinned, watching, explicit_transaction,
                     new, "execute",
                     IF a.c = NoConn THEN "ConnectionError"
                     ELSE ExecutePipelineRaises(old, a.r.cstate, a.c),
                     "none")
            /\ PSet(SioRelease(a.r, a.c))

\* PipelineMixin.reset() with SyncIOPipeline._do_release_connection(conn).
\* o is how UNWATCH ends on a connected connection.
PlReset(o) ==
    LET new == MakePipeline(stack.transaction) IN
    IF pinned = NoConn
    THEN \* conn is None: conn.execute_command is an AttributeError
         /\ PlSet(ptransaction, NoConn, FALSE, explicit_transaction, new,
                  "reset", "AttributeError", "none")
         /\ PSet(Cur)
    ELSE IF ~IsConnected(cstate, pinned)
    THEN \* ConnectionError: conn.disconnect(); release(conn)
         /\ PlSet(ptransaction, NoConn, FALSE, explicit_transaction, new,
                  "reset", "ok", "ConnectionError")
         /\ PSet(SioRelease(Cur, pinned))
    ELSE IF o = "ok"
    THEN /\ PlSet(ptransaction, NoConn, FALSE, explicit_transaction, new,
                  "reset", "ok", "ok")
         /\ PSet(SioRelease(Cur, pinned))
    ELSE \* any other exception leaves _do_release_connection
         /\ PlSet(ptransaction, NoConn, FALSE, explicit_transaction, new,
                  "reset", o, o)
         /\ PSet(Cur)

\* The server closes a connection of the pool.
PlPeerClose(c) ==
    /\ cstate[c] = "connected"
    /\ PSet([Cur EXCEPT !.cstate[c] = "closed"])
    /\ UNCHANGED clvars

ClNext ==
    \/ \E ok \in BOOLEAN : PlWatch(ok)
    \/ PlMulti
    \/ \E command \in {"WATCH", "SET"} : PlCommand(command)
    \/ \E roe \in BOOLEAN, ok \in BOOLEAN : PlExecute(roe, ok)
    \/ \E o \in {"ok", "RedisTimeoutError", "ResponseError"} : PlReset(o)
    \/ \E c \in Conn : PlPeerClose(c)

SpecClient == ClInit /\ [][ClNext]_vars

\* ------------------------------------------------ Pool.disconnect(inuse)
\* One call of AsyncIORedisConnectionPool.disconnect on a pool that holds
\* up to MaxDisc connections, free or in use, connected or lost; any of the
\* connected ones may fail to disconnect (TimeoutError of disconnect()).
DiscConn == 1..MaxDisc

\* The sequences of distinct connections over a set.
RECURSIVE Orders(_)
Orders(S) ==
    IF S = {} THEN {<<>>}
    ELSE UNION {{<<c>> \o o : o \in Orders(S \ {c})} : c \in S}

DiscInit ==
    /\ ConnQuiet
    /\ TxnQuiet
    /\ ptransaction = FALSE
    /\ pinned = NoConn
    /\ watching = FALSE
    /\ explicit_transaction = FALSE
    /\ stack = MakePipeline(FALSE)
    /\ lastop = "new"
    /\ lastres = "ok"
    /\ unwatch = "none"
    /\ maxc = MaxDisc
    /\ minc = 0
    /\ \E F \in SUBSET DiscConn : \E U \in SUBSET (DiscConn \ F) :
         /\ free \in Orders(F)
         /\ inuse = U
         /\ \E lost \in SUBSET (F \cup U) :
              cstate = [c \in Conn |->
                          IF c \in lost THEN "closed"
                          ELSE IF c \in F \cup U THEN "connected"
                          ELSE "none"]
    /\ dfail \in SUBSET {c \in DiscConn : cstate[c] = "connected"}
    /\ acquiring = 0
    /\ made = Cardinality(Range(free) \cup inuse)
    /\ lock = NoTask
    /\ cwait = <<>>
    /\ wakeups = 0
    /\ pc = [t \in Task |-> "idle"]
    /\ tconn = [t \in Task |-> NoConn]
    /\ tphase = [t \in Task |-> "min"]
    /\ targ = [t \in Task |-> <<FALSE, FALSE>>]
    /\ fillsize = [t \in Task |-> -1]
    /\ dpc = "idle"
    /\ darg \in BOOLEAN
    /\ dtasks = <<>>
    /\ dran = {}
    /\ dout = NoConn
    /\ dfree0 = free
    /\ dinuse0 = inuse
    /\ OcQuiet
    /\ HcQuiet

DiscSame ==
    UNCHANGED <<maxc, minc, acquiring, made, cwait, wakeups, pc, tconn,
                tphase, targ, fillsize, connvars, cnvars, pipevars, txnvars,
                clvars, fnvars, failvars, prvars, darg, dfail, dfree0,
                dinuse0>>

\* "while self.free: self.free.pop()": the connections of free, rightmost
\* first.
RECURSIVE Reverse(_)
Reverse(f) == IF f = <<>> THEN <<>> ELSE Append(Reverse(Tail(f)), Head(f))

\* disconnect(inuse) from the lock to gather(): free is popped from the
\* right, then inuse in the order set.pop() gives, and a task that runs
\* conn.disconnect() is created for each.
DiscCreateTasks ==
    /\ dpc = "idle"
    /\ lock = NoTask
    /\ \E o \in Orders(IF darg THEN inuse ELSE {}) :
         dtasks' = Reverse(free) \o o
    /\ free' = <<>>
    /\ inuse' = IF darg THEN {} ELSE inuse
    /\ lock' = 1
    /\ dpc' = "gather"
    /\ UNCHANGED <<cstate, dran, dout>>
    /\ DiscSame

\* The task of one drained connection runs conn.disconnect() to its end:
\* the connection is closed, or the call raises.
DiscTask(c) ==
    /\ dpc = "gather"
    /\ c \in Range(dtasks) \ dran
    /\ dran' = dran \cup {c}
    /\ cstate' = IF c \in dfail THEN cstate ELSE ConnDisconnect(cstate, c)
    /\ UNCHANGED <<free, inuse, lock, dpc, dtasks, dout>>
    /\ DiscSame

\* next((r for r in resp if isinstance(r, BaseException)), None): resp is in
\* the order of the tasks.
RECURSIVE FirstExceptionLast(_, _)
FirstExceptionLast(tasks, fail) ==
    IF tasks = <<>> THEN NoConn
    ELSE IF tasks[Len(tasks)] \in fail THEN tasks[Len(tasks)]
    ELSE FirstExceptionLast(SubSeq(tasks, 1, Len(tasks) - 1), fail)
RECURSIVE FirstException(_, _)
FirstException(tasks, fail) ==
    IF tasks = <<>> THEN NoConn
    ELSE IF Head(tasks) \in fail THEN Head(tasks)
    ELSE FirstException(Tail(tasks), fail)

\* gather(*tasks, return_exceptions=True) returns when every task has
\* ended; the lock is released as the call returns or raises.
DiscGathered ==
    /\ dpc = "gather"
    /\ Range(dtasks) = dran
    /\ dout' = FirstException(dtasks, dfail)
    /\ dpc' = "done"
    /\ lock' = NoTask
    /\ UNCHANGED <<free, inuse, cstate, dtasks, dran>>
    /\ DiscSame

DiscNext ==
    \/ DiscCreateTasks
    \/ \E c \in DiscConn : DiscTask(c)
    \/ DiscGathered

SpecDisc == DiscInit /\ [][DiscNext]_vars

\* ------------------------------- SansIORedisProtocol: on-connect routine
\* A string that is None or empty is false.
Truthy(x) == x \notin {"None", ""}

\* Tuples of three integers compare lexicographically.
VersionGE(v, w) ==
    \/ v[1] > w[1]
    \/ v[1] = w[1] /\ v[2] > w[2]
    \/ v[1] = w[1] /\ v[2] = w[2] /\ v[3] >= w[3]

SUPPORTS_HELLO == <<6, 0, 0>>

\* events.Command(command=..., modifiers=[...])
Command(command, modifiers) == [command |-> command, modifiers |-> modifiers]

\* RedisOperator.pack_command(event) for one command and for a pipeline:
\* the PackedCommand holds the event and its payload.
PackedOne(c) ==
    [none |-> FALSE, pipeline |-> FALSE, raise_on_error |-> FALSE,
     commands |-> <<c>>, payload |-> PackCommand(c)]
PackedPipeline(cmds, roe) ==
    [none |-> FALSE, pipeline |-> TRUE, raise_on_error |-> roe,
     commands |-> cmds, payload |-> PackPipeline(cmds)]

\* SansIORedisProtocol.get_on_connect_routine()
GetOnConnectRoutine(cfg) ==
    LET server_version == IF cfg.version = <<>> THEN <<0, 0, 0>>
                          ELSE cfg.version
        hello == VersionGE(server_version, SUPPORTS_HELLO)
        resp == IF hello
                THEN (IF cfg.resp = "None" THEN "3" ELSE cfg.resp)
                ELSE "2"
        init == IF hello
                THEN PackedOne(Command("HELLO",
                         <<resp>>
                         \o (IF Truthy(cfg.username) \/ Truthy(cfg.password)
                             THEN <<"AUTH",
                                    IF Truthy(cfg.username) THEN cfg.username
                                    ELSE "default",
                                    IF Truthy(cfg.password) THEN cfg.password
                                    ELSE "">>
                             ELSE <<>>)
                         \o (IF Truthy(cfg.name) THEN <<"SETNAME", cfg.name>>
                             ELSE <<>>)))
                ELSE IF Truthy(cfg.password)
                THEN PackedOne(Command("AUTH", <<cfg.password>>))
                ELSE NoPacked
        command_stack ==
            (IF ~hello /\ Truthy(cfg.name)
             THEN <<Command("CLIENT SETNAME", <<cfg.name>>)>> ELSE <<>>)
            \o (IF cfg.db # "None"
                THEN <<Command("SELECT", <<cfg.db>>)>> ELSE <<>>)
        packed_stack == IF command_stack = <<>> THEN NoPacked
                 ELSE IF Len(command_stack) > 1
                 THEN PackedPipeline(command_stack, TRUE)
                 ELSE PackedOne(command_stack[Len(command_stack)])
    IN [done |-> TRUE, init |-> init, stack |-> packed_stack, resp |-> resp]

\* The versions, credentials, names, databases and dialects tried.
Versions == {<<>>, <<5, 9, 9>>, <<6, 0, 0>>, <<6, 2, 1>>, <<7, 0, 0>>}

OcInit ==
    /\ PoolQuiet
    /\ ConnQuiet
    /\ TxnQuiet
    /\ ptransaction = FALSE
    /\ pinned = NoConn
    /\ watching = FALSE
    /\ explicit_transaction = FALSE
    /\ stack = MakePipeline(FALSE)
    /\ lastop = "new"
    /\ lastres = "ok"
    /\ unwatch = "none"
    /\ dpc = "idle"
    /\ darg = FALSE
    /\ dfail = {}
    /\ dtasks = <<>>
    /\ dran = {}
    /\ dout = NoConn
    /\ dfree0 = <<>>
    /\ dinuse0 = {}
    /\ HcQuiet
    /\ ocfg \in [version : Versions, username : {"None", "", "user"},
                  password : {"None", "", "secret"},
                  name : {"None", "", "app"}, db : {"None", "0", "1"},
                  resp : {"None", "2", "3"}]
    /\ oret = [done |-> FALSE, init |-> NoPacked, stack |-> NoPacked,
               resp |-> ocfg.resp]

\* The connection compiles its handshake: get_on_connect_routine().
OnConnectRoutine ==
    /\ ~oret.done
    /\ oret' = GetOnConnectRoutine(ocfg)
    /\ UNCHANGED <<ocfg, hinterval, hnext, hclock, hping, hseen>>
    /\ UNCHANGED <<poolvars, connvars, cnvars, pipevars, txnvars, clvars,
                   discvars, failvars, prvars>>

\* on_connect() of a new connection (AsyncIORedisConnection and
\* SyncIORedisConnection alike): with no server_version configured INFO is
\* sent and the version v of the answer is stored; the routine is compiled
\* and kept in connect_routine; then "if init: ... return iresponse", else
\* "if stack: ...".  o is the server's answer to the payload sent.
OnConnectSends(init, packed_stack) ==
    IF ~init.none THEN <<"init">>
    ELSE IF ~packed_stack.none THEN <<"stack">>
    ELSE <<>>

OnConnect(v, o) ==
    /\ opc = "idle"
    /\ LET cfg == IF ocfg.version = <<>> THEN [ocfg EXCEPT !.version = v]
                  ELSE ocfg
           routine == GetOnConnectRoutine(cfg)
           sends == OnConnectSends(routine.init, routine.stack) IN
       /\ ocfg' = cfg
       /\ oret' = routine
       /\ osent' = (IF ocfg.version = <<>> THEN <<"INFO">> ELSE <<>>) \o sends
       /\ opc' = IF o = "ok" \/ sends = <<>> THEN "returned" ELSE "raised"
    /\ UNCHANGED <<hinterval, hnext, hclock, hping, hseen, ppc, got>>
    /\ UNCHANGED <<poolvars, connvars, cnvars, pipevars, txnvars, clvars,
                   discvars, failvars>>

OcNext ==
    \/ OnConnectRoutine
    \/ \E v \in Versions \ {<<>>}, o \in {"ok", "ResponseError"} :
           OnConnect(v, o)

SpecOnConnect == OcInit /\ [][OcNext]_vars

\* ------------------------------------------ check_health and the clock
\* SansIORedisProtocol.should_check_health(curtime): True or None.
ShouldCheckHealth(interval, curtime, next) == interval # 0 /\ curtime < next

HcInit ==
    /\ PoolQuiet
    /\ ConnQuiet
    /\ TxnQuiet
    /\ ptransaction = FALSE
    /\ pinned = NoConn
    /\ watching = FALSE
    /\ explicit_transaction = FALSE
    /\ stack = MakePipeline(FALSE)
    /\ lastop = "new"
    /\ lastres = "ok"
    /\ unwatch = "none"
    /\ dpc = "idle"
    /\ darg = FALSE
    /\ dfail = {}
    /\ dtasks = <<>>
    /\ dran = {}
    /\ dout = NoConn
    /\ dfree0 = <<>>
    /\ dinuse0 = {}
    /\ OcQuiet
    /\ hinterval \in 0..2
    /\ hnext \in (0..MaxClock) \cup {HInf}
    /\ hclock \in 0..MaxClock
    /\ hping = -1
    /\ hseen = [clock |-> 0, next |-> 0]

HcSame ==
    UNCHANGED <<poolvars, connvars, cnvars, pipevars, txnvars, clvars,
                discvars, failvars, prvars, ocfg, oret, hinterval>>

\* Time passes.
Tick ==
    /\ hclock < MaxClock
    /\ hclock' = hclock + 1
    /\ UNCHANGED <<hnext, hping, hseen>>
    /\ HcSame

\* AsyncIORedisConnection.check_health(): when the protocol says so, PING
\* is sent; after a ConnectionError or TimeoutError (~ok1) the connection
\* disconnects and sends it once more, and a second failure (~ok2) is
\* raised.  set_next_health_check(loop.time()) ends a check that passed.
CheckHealth(ok1, ok2) ==
    /\ hseen' = [clock |-> hclock, next |-> hnext]
    /\ IF ShouldCheckHealth(hinterval, hclock, hnext)
       THEN /\ hping' = IF ok1 THEN 1 ELSE 2
            /\ hnext' = IF ok1 \/ ok2 THEN hclock ELSE hnext
       ELSE /\ hping' = 0
            /\ hnext' = hnext
    /\ UNCHANGED hclock
    /\ HcSame

HcNext ==
    \/ Tick
    \/ \E ok1 \in BOOLEAN, ok2 \in BOOLEAN : CheckHealth(ok1, ok2)

SpecHealth == HcInit /\ [][HcNext]_vars

\* ------------------------------- one pooled connection and its failures
\* The cooperative pool with max_connections=1 and one caller.  The caller
\* acquires the connection, sends commands on it, which the server answers
\* with a value or with an error reply, and releases it; the socket may
\* fail, the server may write a reply nobody asked for, a read may time
\* out, and the pool may be disconnected.
\* RedisAsyncIOProtocol.is_connected
IoIsConnected(k) == k.pstate = "connected" /\ k.transport = "open"

\* The pool, with is_connected of its connection as the protocol has it.
PoolView ==
    [Cur EXCEPT !.cstate =
        [c \in Conn |->
            IF c = 1 /\ cstate[1] # "none"
            THEN (IF IoIsConnected(KCur) THEN "connected" ELSE "closed")
            ELSE cstate[c]]]

FailSame ==
    UNCHANGED <<cnvars, pipevars, txnvars, clvars, discvars, fnvars, prvars>>

\* AsyncIORedisConnectionPool.acquire by the only caller: the first call
\* constructs and connects the connection; a later one takes it from free,
\* after _drop_closed has dropped it if it is no longer connected.
FAcquire ==
    /\ inuse = {}
    /\ IF made = 0
       THEN /\ PVars([Cur EXCEPT !.inuse = {1}, !.made = 1,
                                 !.cstate[1] = "connected"])
            /\ KVars([KCur EXCEPT !.transport = "open",
                                  !.pstate = "connected"])
            /\ UNCHANGED <<failvars, prvars>>
            /\ FailSame
       ELSE /\ free # <<>>
            /\ LET f == DropClosed(free, PoolView.cstate) IN
               Commit(IF f = <<>> THEN [PoolView EXCEPT !.free = f]
                      ELSE [PoolView EXCEPT !.free = Tail(f),
                                            !.inuse = {Head(f)}])

\* The holder sends a command; bad: the server answers it with an error
\* reply.
FSend(bad) ==
    /\ 1 \in inuse
    /\ sent < MaxCmds
    /\ KVars(Sent(KCur))
    /\ rerr' = IF bad /\ Sent(KCur).emitted > emitted
               THEN rerr \cup {emitted + 1} ELSE rerr
    /\ UNCHANGED <<fdisc, poolvars>>
    /\ FailSame

\* The holder releases the connection.
FRelease ==
    /\ 1 \in inuse
    /\ MaySchedule
    /\ Commit(Release(PoolView, 1))

\* AsyncIORedisConnectionPool.disconnect(inuse=iu) up to gather():
\* conn.disconnect() returns at once unless is_connected, else closes the
\* transport and waits for connection_lost.
FPoolDisconnect(iu) ==
    /\ 1 \in Range(free) \cup (IF iu THEN inuse ELSE {})
    /\ PVars([PoolView EXCEPT !.free = <<>>,
                              !.inuse = IF iu THEN {} ELSE @])
    /\ KVars(IF IoIsConnected(KCur)
             THEN [KCur EXCEPT !.transport = "closing"] ELSE KCur)
    /\ fdisc' = TRUE
    /\ UNCHANGED rerr
    /\ FailSame

FailNext ==
    \/ FAcquire
    \/ \E bad \in BOOLEAN : FSend(bad)
    \/ FRelease
    \/ Wakeup
    \/ \E iu \in BOOLEAN : FPoolDisconnect(iu)
    \/ ServerPush
    \/ \E n \in 1..(FrameLen * (MaxCmds + MaxPush)) : DataReceived(n)
    \/ \E i \in Cmd : ReadTimeout(i)
    \/ \E rst \in BOOLEAN : PeerCloses(rst)
    \/ ConnectionLost

SpecFail == ConnInit /\ [][FailNext]_vars

\* ------------------------------------- _drop_closed and _get_conn alone
\* A pool of up to MaxDisc connections, free in any order or in use,
\* connected or lost, and one caller; nothing else touches the pool.
PruneSame ==
    UNCHANGED <<maxc, minc, inuse, acquiring, cstate, made, lock, cwait,
                wakeups, pc, tconn, tphase, targ, fillsize, connvars, cnvars,
                pipevars, txnvars, clvars, discvars, fnvars, failvars,
                opc, osent>>

\* BaseIORedisConnectionPool._drop_closed(), the first statement of
\* iterconn.
Prune ==
    /\ ppc = "idle"
    /\ free' = DropClosed(free, cstate)
    /\ ppc' = "pruned"
    /\ UNCHANGED got
    /\ PruneSame

\* BaseIORedisConnectionPool._get_conn(), as execute_command and
\* execute_pipeline call it.
FastPath ==
    /\ ppc \in {"idle", "fast"}
    /\ Len(got) < MaxDisc
    /\ free' = GetConn(free, cstate)[2]
    /\ got' = Append(got, GetConn(free, cstate)[1])
    /\ ppc' = "fast"
    /\ PruneSame

PruneNext == Prune \/ FastPath

SpecPrune == DiscInit /\ [][PruneNext]_vars

\* ------------------------------------------------------------------------

\* C2: for any number of concurrent execute_command callers, the number of
\* connections in in_use never exceeds max_connections.
C2_InUseBounded == Cardinality(inuse) <= maxc

\* C2 witness: the pool is saturated (in_use holds max_connections
\* connections) while another caller is suspended in acquire.
C2_Witness == Cardinality(inuse) = maxc /\ cwait # <<>>


\* C6 (as claimed): free and in_use are disjoint, and a connection the pool
\* has disconnected is in neither free nor in_use.
C6_Partition ==
    /\ Range(free) \cap inuse = {}
    /\ \A c \in Conn :
         cstate[c] = "disconnected" => c \notin Range(free) /\ c \notin inuse

\* C7: when fill(override_min=False) returns normally, size() is at least
\* min_connections.
C7_FillReachesMin ==
    \A t \in Task : pc[t] = "filled" => fillsize[t] >= minc

\* C7 witness: a fill that had to construct connections has returned.
C7_Witness ==
    \E t \in Task : pc[t] = "filled" /\ minc = 2 /\ fillsize[t] = 2 /\ made >= 2

\* C8: release(conn) of a connection in in_use removes it from in_use; if it
\* is connected it is appended to free, else it ends in neither.
C8_Release ==
    [][\A t \in Task :
         (pc[t] = "use" /\ pc'[t] = "released" /\ tconn[t] \in inuse) =>
            /\ tconn[t] \notin inuse'
            /\ IsConnected(cstate, tconn[t]) => free' = Append(free, tconn[t])
            /\ ~IsConnected(cstate, tconn[t]) =>
                   free' = free /\ tconn[t] \notin Range(free')]_vars

\* C8 witness: an in-use connection that was no longer connected has been
\* released and is in neither free nor in_use.
C8_Witness ==
    \E t \in Task :
        /\ pc[t] = "released"
        /\ cstate[tconn[t]] = "closed"
        /\ tconn[t] \notin Range(free)
        /\ tconn[t] \notin inuse

\* C3 (as claimed): in every reachable state of the pool, under any
\* interleaving of its callers, 0 <= size = |free| + |in_use| + acquiring
\* <= max_connections.
C3_SizeInRange ==
    /\ 0 <= Size(free, inuse, acquiring)
    /\ Size(free, inuse, acquiring) <= maxc

\* C4: when free is not empty while callers are blocked in acquire, then
\* under fair scheduling a blocked caller is woken or the free connections
\* are taken: the pool does not stay with a free connection and every waiter
\* blocked.
C4_BlockedCallerWoken ==
    (cwait # <<>> /\ Len(free) > 0) ~> (cwait = <<>> \/ Len(free) = 0)

\* C4 witness: a release has appended its connection to free while a caller
\* is blocked in acquire, before the release has called _wakeup.
C4_Witness ==
    \E t \in Busy :
        /\ pc[t] = "t_rel_wake"
        /\ tconn[t] \in Range(free)
        /\ cwait # <<>>

\* C5: with max_connections=2 and min_connections=1 and every command
\* replied to, at most 2 connections are ever created, every caller
\* completes, and in the end in_use is empty and free holds 1 or 2
\* connections.
C5_Saturation ==
    /\ [](made <= maxc)
    /\ <>[](/\ \A t \in Task : pc[t] = "idle"
            /\ inuse = {}
            /\ Len(free) \in {1, 2})

\* C5 witness: every caller has completed after the pool had to create its
\* second connection, and both connections are back in free.
C5_Witness ==
    /\ \A t \in Task : pc[t] = "idle"
    /\ made = 2
    /\ inuse = {}
    /\ Len(free) = 2

\* C1: on one connection, however the reply bytes are split into chunks, the
\* i-th reply of the stream is delivered to the waiter of the i-th
\* send_command, one waiter per reply, oldest first.
C1_ReplyWaiterAlignment ==
    /\ \A i \in Cmd : fut[i].st = "result" => fut[i].reply = i
    /\ \A j \in 1..Len(pwaiters) :
          /\ fut[pwaiters[j]].st \in {"pending", "timeout"}
          /\ \A i \in Cmd : fut[i].st = "result" => i < pwaiters[j]
          /\ \A h \in 1..(j - 1) : pwaiters[h] < pwaiters[j]

\* C1 witness: the first reply has been delivered to the first waiter while
\* two more waiters are queued and a part of the second reply is buffered.
C1_Witness ==
    /\ fut[1] = [st |-> "result", reply |-> 1]
    /\ pwaiters = <<2, 3>>
    /\ rbuf # <<>>
    /\ Gets(rbuf).reply = 0

\* C9 (as claimed, for the threaded driver): when the read loop meets a
\* reply while the waiter queue is empty, the state becomes Error with
\* InvalidResponse as the stored cause, and a send_command called in that
\* state raises that InvalidResponse.
C9_UnpairedReplyPoisons ==
    [][/\ (unpaired' /\ ~unpaired) =>
              (pstate' = "error" /\ pexc' = "InvalidResponse")
       /\ (sent' = sent + 1 /\ pstate = "error" /\ pexc = "InvalidResponse")
              => raised' = "InvalidResponse"]_vars

\* C10 (as claimed): once the socket of a connection is closed and
\* connection_lost has run, no waiter is left pending.
C10_NoWaiterLeftPending ==
    transport = "closed" => \A i \in Cmd : fut[i].st # "pending"

C12_StateMachine ==
    [][/\ pstate' # pstate =>
              <<pstate, pstate'>> \in {<<"not_connected", "connected">>,
                                       <<"connected", "not_connected">>,
                                       <<"connected", "error">>,
                                       <<"error", "connected">>}
       /\ (pstate = "connected" /\ transport = "closing"
               /\ transport' = "closed") => pstate' = "not_connected"]_vars

\* C13: connect() on a connection that is already connected opens no
\* socket and sends no handshake; and with any number of concurrent
\* connect() calls on one connection, at most one socket open is in flight
\* and at most one socket is attached to the connection.
C13_ConnectOnce ==
    /\ [](opening <= 1 /\ socks <= 1)
    /\ [][\A t \in Task :
            (/\ cpc[t] = "idle"
             /\ ConnIsConnected(connection, pstate, transport)
             /\ <<cpc[t], cres[t]>>' # <<cpc[t], cres[t]>>)
            => (/\ cpc'[t] = "idle"
                /\ UNCHANGED <<opening, socks, opens, hsent, transport>>)]_vars

\* C13 witness: of three concurrent callers one made the connection, one
\* found it connected once it got the lock, one found it connected at once,
\* and a single socket was opened.
C13_Witness ==
    \E t, u, v \in Task :
        /\ cres[t] = "ok"
        /\ cres[u] = "returned_in_lock"
        /\ cres[v] = "returned"
        /\ socks = 1
        /\ opens = 1
        /\ hsent = 1

\* C14 (as claimed): when the server answers the handshake with an error,
\* connect() raises (the AuthenticationError itself, or a ConnectionError
\* wrapping another ResponseError) and has disconnected the connection: it
\* is not left connected with an open socket.
C14_HandshakeErrorDisconnects ==
    [][\A t \in Task :
          (cpc[t] \in {"hs", "disc"} /\ cpc'[t] = "idle" /\ cres'[t] # "ok")
          => (/\ cres'[t] \in {"AuthenticationError", "RedisConnectionError"}
              /\ ~ConnIsConnected(connection', pstate', transport')
              /\ ~(pstate' = "connected" /\ transport' = "open"))]_vars

\* C15 (as claimed): once the wait for a reply has timed out, the
\* connection is poisoned: every later send_command on it fails and writes
\* nothing to the socket.
C15_TimeoutPoisons ==
    [][(sent' = sent + 1 /\ \E i \in Cmd : fut[i].st = "timeout")
          => (/\ raised' \notin {"none", "ConnectionClosed"}
              /\ emitted' = emitted
              /\ pwaiters' = pwaiters)]_vars

\* C16 (as claimed, for the threaded driver): under any interleaving of
\* the threads that call send_command on one connection, the waiters are
\* queued in the order in which their payloads were written to the socket.
C16_WritesSerialized ==
    \A i, j \in 1..Len(pwaiters) : i < j => pwaiters[i] < pwaiters[j]

\* C17 (as claimed): a pipeline of k commands is written whole, and when
\* its caller gets the result every one of its k commands has been answered
\* and the answer was delivered to the pipeline's own waiter; no reply is
\* counted as unpaired.
C17_PipelineReplies ==
    /\ ~unpaired
    /\ \A i \in Cmd : fut[i].st = "result" =>
          /\ \A c \in 1..plen[i] :
                \E r \in 1..Len(rtag) : rtag[r] = <<i, c>>
          /\ fut[i].reply \in 1..Len(rtag)
          /\ rtag[fut[i].reply][1] = i

\* C18 (as claimed): for a transactional pipeline of k commands whose
\* replies [watch_ack, k acks, exec_body] hold no error, normalization
\* returns the k elements of exec_body in command order, each with its
\* command's callback applied, whether raise_on_error is set or not.
C18_TransactionReplies ==
    LET k == Len(tcmds)
        body == treply[Len(treply)] IN
    (/\ tdone
     /\ ttrans
     /\ \A i \in 1..(k + 1) : treply[i].kind = "val"
     /\ body.kind = "list"
     /\ Len(body.items) = k
     /\ \A i \in 1..k : body.items[i].kind = "val")
    => (/\ tout.out = "return"
        /\ Len(tout.replies) = k
        /\ \A i \in 1..k :
              tout.replies[i] =
                  [cmd |-> i,
                   reply |-> IF tcmds[i].cb THEN Callback(i, body.items[i])
                             ELSE body.items[i]])

\* C19 (as claimed): for a transactional pipeline whose exec_body is nil,
\* normalization raises WatchError, whatever the acks of the commands are
\* and whether raise_on_error is set or not.
C19_NilExecRaisesWatchError ==
    (tdone /\ ttrans /\ treply[Len(treply)].kind = "nil")
    => (tout.out = "raise" /\ tout.exc = "WatchError")

\* C20 (as claimed): for a transactional pipeline in which the only error
\* ack is the one at position i and exec_body has one element less than
\* there are commands, the checked replies have one element more than
\* exec_body, the error at position i and the elements of exec_body in
\* their order around it.
C20_AckErrorSpliced ==
    LET k == Len(tcmds)
        body == treply[Len(treply)] IN
    \A i \in 1..k :
        (/\ tdone
         /\ ttrans
         /\ body.kind = "list"
         /\ Len(body.items) = k - 1
         /\ \A j \in 1..k : IsResponseError(treply[j + 1]) <=> j = i)
        => (/\ tsan.exc = "none"
            /\ Len(tsan.exec_response.items) = k
            /\ IsResponseError(tsan.exec_response.items[i])
            /\ \A j \in 1..(k - 1) :
                  tsan.exec_response.items[IF j < i THEN j ELSE j + 1]
                      = body.items[j])

C23_PipelinePayload ==
    ppay.frames = [c \in 1..ppay.n |-> PackCommand(c)[1]]


\* C24: after Pipeline.execute() completes, a connection that WATCH had
\* pinned to the pipeline is released: UNWATCH was attempted on it, the
\* pipeline holds no pinned connection and the connection is not in in_use.
C24_ExecuteReleasesPinned ==
    [][(lastop' = "execute" /\ pinned # NoConn)
       => (/\ unwatch' # "none"
           /\ pinned' = NoConn
           /\ pinned \notin inuse')]_vars

\* C25: on a newly created pipeline watch() succeeds and pins a freshly
\* acquired connection, and multi() after it succeeds and sets
\* explicit_transaction; multi() with a non-empty stack that had no WATCH
\* raises and leaves the stack and explicit_transaction as they were.
C25_WatchThenMulti ==
    [][/\ (lastop = "new" /\ lastop' = "watch"
           /\ lastres' # "ConnectionError")
          => (/\ lastres' = "ok"
              /\ pinned' # NoConn
              /\ pinned' \in inuse')
       /\ (lastop = "watch" /\ lastres = "ok" /\ lastop' = "multi")
          => (lastres' = "ok" /\ explicit_transaction')
       /\ (lastop' = "multi" /\ ~explicit_transaction /\ pinned = NoConn
           /\ ~stack.none /\ stack.commands # <<>>)
          => (/\ lastres' = "RedisError"
              /\ UNCHANGED <<stack, explicit_transaction>>)]_vars

\* C26: Pool.disconnect(inuse) removes every connection from free (and from
\* in_use when inuse is true) and calls disconnect on each of them even if
\* an earlier one fails; afterwards free (and in_use when inuse is true) is
\* empty, and the first failure is raised only after all were attempted.
C26_DisconnectAll ==
    LET drained == Range(dfree0) \cup (IF darg THEN dinuse0 ELSE {}) IN
    /\ dpc = "done"
       => (/\ free = <<>>
           /\ inuse = (IF darg THEN {} ELSE dinuse0)
           /\ dran = drained
           /\ \A c \in drained \ dfail : ~IsConnected(cstate, c)
           /\ dout = (IF \E i \in 1..Len(dtasks) : dtasks[i] \in dfail
                      THEN dtasks[CHOOSE i \in 1..Len(dtasks) :
                                     /\ dtasks[i] \in dfail
                                     /\ \A j \in 1..(i - 1) :
                                           dtasks[j] \notin dfail]
                      ELSE NoConn))
    /\ dpc # "done" => dout = NoConn

\* C26 witness: the call has ended by raising the failure of the first
\* connection drained, after two more connections were disconnected, one
\* of them from in_use.
C26_Witness ==
    /\ dpc = "done"
    /\ darg
    /\ Len(dtasks) = 3
    /\ dout = dtasks[1]
    /\ dinuse0 # {}
    /\ Cardinality(dfail) = 2
    /\ dran = Range(dtasks)

C28_HealthCheckWhenDue ==
    hping # -1
    => (/\ (hinterval # 0 /\ hseen.clock > hseen.next) => hping > 0
        /\ hping > 0 => (hinterval # 0 /\ hseen.clock >= hseen.next)
        /\ hseen.clock < hseen.next => hping = 0)

\* C29: a command that fails with a server error reply leaves its
\* connection Connected and the pool intact: release returns the connection
\* to free and later commands on it get their own replies; a connection that
\* suffered a transport or protocol failure is in state Error and its next
\* release removes it from the pool, it is not put back into free.
C29_FailureInvalidatesConnection ==
    [][/\ \A i \in Cmd :
            (/\ fut[i].st = "pending"
             /\ fut'[i].st = "result"
             /\ fut'[i].reply \in rerr
             /\ unpaired' = unpaired
             /\ transport' = transport)
            => (/\ pstate' = "connected"
                /\ pexc' = pexc
                /\ UNCHANGED <<free, inuse>>)
       /\ (1 \in inuse /\ 1 \notin inuse' /\ wakeups' = wakeups + 1)
            => (/\ IoIsConnected(KCur) => free' = Append(free, 1)
                /\ pstate = "error" => 1 \notin Range(free'))
       /\ (pexc' # "none" \/ unpaired' \/ transport' = "closed")
            => pstate' = "error"
       /\ pushed' = 0
            => \A i \in Cmd : fut'[i].st = "result" => fut'[i].reply = i]_vars

\* C29 witness: the first command got an error reply, the connection was
\* released into free, and the second command has got its own reply.
C29_Witness ==
    /\ 1 \in rerr
    /\ fut[1] = [st |-> "result", reply |-> 1]
    /\ fut[2] = [st |-> "result", reply |-> 2]
    /\ 2 \notin rerr
    /\ pstate = "connected"
    /\ free = <<1>>

\* C30: every connection that leaves the pool (dropped by release because
\* it is not connected, pruned from free by fill, or drained by
\* Pool.disconnect) has had disconnect() called on it and its socket
\* closed; a connection in state Error keeps no open socket after the pool
\* has dropped it.
C30_DroppedIsDisconnected ==
    (made = 1 /\ 1 \notin Range(free) /\ 1 \notin inuse)
    => (fdisc /\ transport # "open")

\* C31: when the pruning step of fill (_drop_closed) ends with no other
\* pool activity, free holds no connection that was not connected when the
\* step began, for every arrangement of connected and closed connections.
C31_PruneDropsClosed ==
    ppc = "pruned" => \A c \in Range(free) : IsConnected(cstate, c)

\* C32: the pruning step keeps the relative order of the live connections
\* of free: a connected before b connected at the start is before b at the
\* end.
C32_PruneKeepsOrder ==
    ppc = "pruned"
    => \A i \in 1..Len(dfree0) : \A j \in (i + 1)..Len(dfree0) :
          (IsConnected(cstate, dfree0[i]) /\ IsConnected(cstate, dfree0[j]))
          => \E h \in 1..Len(free) : \E l \in (h + 1)..Len(free) :
                free[h] = dfree0[i] /\ free[l] = dfree0[j]

\* C34: the fast path (_get_conn) only rotates free: it changes the
\* membership of neither free, in_use nor acquiring, it returns a connection
\* for which is_connected holds, or none, and with n connected free
\* connections and no other pool activity n calls in a row return each of
\* the n connections exactly once.
C34_FastPathRotates ==
    LET live == {c \in Range(free) : IsConnected(cstate, c)} IN
    /\ ppc = "fast"
       => (/\ Range(free) = Range(dfree0)
           /\ Len(free) = Len(dfree0)
           /\ inuse = dinuse0
           /\ acquiring = 0
           /\ \A i \in 1..Len(got) :
                 IF live = {} THEN got[i] = NoConn ELSE got[i] \in live)
    /\ (ppc = "fast" /\ Len(got) = Cardinality(live))
       => (/\ Range(got) = live
           /\ \A i \in 1..Len(got) : \A j \in 1..Len(got) :
                 got[i] = got[j] => i = j)

\* C34 witness: two calls of the fast path on a pool whose free holds two
\* connected connections and a closed one have returned the two.
C34_Witness ==
    /\ ppc = "fast"
    /\ Len(got) = 2
    /\ Len(free) = 3
    /\ Cardinality({c \in Range(free) : IsConnected(cstate, c)}) = 2
    /\ got[1] # got[2]
    /\ free # dfree0

\* C33: one fill(override_min=True) call of acquire constructs a connection
\* beyond min_connections only when free is empty and size() is below
\* max_connections, and at most one such connection.  A step in which caller
\* t is newly suspended in connect() inside acquire constructed a connection:
\* in the first loop of iterconn the size, the new one counted, stays within
\* min_connections; in the second loop free is empty, the size stays within
\* max_connections, and the call has not constructed one there before.
AcqCreates(t) == pc'[t] = "acq_conn" /\ tconn'[t] # tconn[t]
C33_FillOverMinOnce ==
    [][\A t \in Task : AcqCreates(t) =>
          LET size == Size(free', inuse', acquiring') IN
          /\ tphase'[t] = "min" => size <= minc
          /\ tphase'[t] = "over" =>
                /\ free' = <<>>
                /\ size <= maxc
                /\ ~(pc[t] = "acq_conn" /\ tphase[t] = "over")]_vars
C33_Witness ==
    \E t \in Task : /\ pc[t] = "acq_conn" /\ tphase[t] = "over"
                    /\ free = <<>> /\ inuse # {}
                    /\ Size(free, inuse, acquiring) > minc
                    /\ Size(free, inuse, acquiring) = maxc

\* C35 (as claimed): in the threaded driver, once the complete reply to a
\* written command has been received from the socket, the command's future
\* is resolved with no further data having to arrive.  Stated on the states
\* in which the reader thread can only wait for more data: the connection is
\* connected, every reply the server wrote (none of them a push) has been
\* received, no caller is inside send_command and the reader is back in
\* recv(); in such a state no future may still be pending.
C35_ReplyResolvesFuture ==
    (/\ pstate = "connected" /\ transport = "open" /\ pushed = 0
     /\ rpc = "recv" /\ wire = <<>>
     /\ \A u \in Sender : spc[u] = "idle")
        => \A i \in Cmd : fut[i].st # "pending"

\* C36 (as claimed): when the on-connect routine has both an init payload
\* and a stack payload, on_connect sends init, then stack, before connect()
\* returns.
C36_InitThenStack ==
    (opc = "returned" /\ ~oret.init.none /\ ~oret.stack.none)
        => \E i \in 1..Len(osent) : \E j \in (i + 1)..Len(osent) :
              osent[i] = "init" /\ osent[j] = "stack"

\* C37: acquiring equals the number of connect() calls in flight inside
\* fill (of acquire, of fill itself and of reset): it is incremented before
\* each connect, decremented when the connect finishes, and restored when
\* the connect fails, so a failed connect does not count toward size().
InFlight == {t \in Task : pc[t] \in {"acq_conn", "fill_conn"}}
C37_AcquiringCountsConnects ==
    /\ acquiring = Cardinality(InFlight)
    /\ \A t \in InFlight : cstate[tconn[t]] = "connecting"
    /\ \A t, u \in InFlight : t # u => tconn[t] # tconn[u]
C37_Witness ==
    /\ \E t, u \in Task : pc[t] = "acq_conn" /\ pc[u] = "fill_conn"
    /\ acquiring = 2
    /\ free = <<>>
    /\ inuse = {}
    /\ made = MaxMade

\* C38 (as claimed): whenever a connect() call on a connection returns
\* normally, the on-connect handshake of the connection has completed: no
\* caller is still inside on_connect, waiting for the handshake's reply.
C38_ConnectReturnsAfterHandshake ==
    [][\A t \in Task :
          (/\ <<cpc[t], cres[t]>>' # <<cpc[t], cres[t]>>
           /\ cpc'[t] = "idle"
           /\ cres'[t] \in {"ok", "returned", "returned_in_lock"})
          => \A u \in Task : cpc'[u] # "hs"]_vars

\* C39 (as claimed): Pipeline.reset() on a pipeline with a pinned
\* connection ends with the pipeline unpinned and the connection out of the
\* pool's in_use set, whatever the outcome of the UNWATCH it sends.
C39_ResetReleasesPinned ==
    [][(/\ pinned # NoConn
        /\ lastop' = "reset"
        /\ <<lastop, pinned>>' # <<lastop, pinned>>)
          => (pinned' = NoConn /\ pinned \notin inuse')]_vars

\* C40 (as claimed): a caller blocked in acquire() does not stay blocked
\* forever: also when Pool.disconnect(inuse=True) empties the pool while
\* callers wait and the former holders then release, every blocked caller
\* is eventually woken and obtains a connection.
C40_BlockedCallerWoken ==
    \A t \in Task : (pc[t] = "acq_wait") ~> (pc[t] = "use")

====
